---- MODULE Spec2Model ----
(***************************************************************************)
(* Iterated Prisoner's Dilemma fishbowl: the match engine, the strategies  *)
(* and the schedulers of the three variants of the component:              *)
(*   "hover"  src/unnamed/part_000  (runIteratedMatch, setInterval)        *)
(*   "timer"  src/unnamed/part_001  (playGame, setInterval)                *)
(*   "raf"    src/unnamed/part_002  (playGame, requestAnimationFrame)      *)
(* part_001 and part_002 share the strategies, playGame and the setAgents  *)
(* updater of a tick; they differ in the driver of the ticks.              *)
(*                                                                         *)
(* Numbers: Math.random() returns r/RandScale for an integer r in          *)
(* 0..RandScale-1; probabilities are integers in the same unit; Q-values   *)
(* are integers in units of 1/QScale.                                      *)
(***************************************************************************)
EXTENDS Integers, Sequences, FiniteSets, TLC

\* ---------------------------------------------------------------- bounds
\* Math.random is a cyclic stream of RandPeriod values chosen at start-up.
RandPeriod == 3
\* Ticks modelled per run, and runs modelled per behaviour.
MaxTicks == 2
MaxRuns == 2
\* Period of the Math.random stream in whole runs.
RunPeriod == 2

\* ------------------------------------------------------ simulation params
PD_R == 3
PD_T == 5
PD_P == 1
PD_S == 0
ITERATED_LENGTH == 20
PAUSE_BETWEEN_MATCHES_MS == 300
AGENT_COUNT == 10

\* ------------------------------------------------------------ Math.random
RandScale == 10000
\* Representative return values of Math.random (in 1/RandScale): they hit
\* both sides of the thresholds 0.1 and 0.5 and the roster indices 0,2,6,8,9.
RandValues == {500, 2500, 6500, 8500, 9500}
\* Values that only separate the thresholds 0.1, 0.45..0.55 and 0.5.
MatchRandValues == {500, 2500, 6500}

Tapes(V) == [1..RandPeriod -> V]

\* The value the next call of Math.random returns, and the stream after it.
Draw(tape, pos) == tape[(pos % Len(tape)) + 1]
Adv(tape, pos) == (pos + 1) % Len(tape)

\* Math.floor(Math.random() * n)
randIndex(r, n) == (r * n) \div RandScale

\* ------------------------------------------------------------ JS helpers
Last(s) == s[Len(s)]
\* s.slice(-n)
SliceLast(s, n) == SubSeq(s, IF Len(s) > n THEN Len(s) - n + 1 ELSE 1, Len(s))
\* s.slice(0, -1)
Front(s) == SubSeq(s, 1, Len(s) - 1)
\* s.slice(-n - 1, -1)
SliceBeforeLast(s, n) == SubSeq(s, IF Len(s) > n + 1 THEN Len(s) - n ELSE 1, Len(s) - 1)

RECURSIVE JoinOpponent(_)
\* recs.map(h => h.opponent).join("")
JoinOpponent(recs) ==
  IF recs = <<>> THEN "" ELSE recs[1].opponent \o JoinOpponent(Tail(recs))

RECURSIVE SumPayoff(_)
SumPayoff(recs) ==
  IF recs = <<>> THEN 0 ELSE recs[1].payoff + SumPayoff(Tail(recs))

\* ---------------------------------------------------------------- payoff
payoffFor(meMove, oppMove) ==
  IF meMove = "C" /\ oppMove = "C" THEN PD_R
  ELSE IF meMove = "C" /\ oppMove = "D" THEN PD_S
  ELSE IF meMove = "D" /\ oppMove = "C" THEN PD_T
  ELSE PD_P

\* Mutant: the temptation and the sucker's payoff on the wrong sides.
inlinePayoffSwapped(moveA, moveB) ==
  IF moveA = "C" /\ moveB = "C" THEN <<PD_R, PD_R>>
  ELSE IF moveA = "C" /\ moveB = "D" THEN <<PD_T, PD_S>>
  ELSE IF moveA = "D" /\ moveB = "C" THEN <<PD_S, PD_T>>
  ELSE <<PD_P, PD_P>>

\* The inline payoff computation of playGame: <<payoffA, payoffB>>.
inlinePayoff(moveA, moveB) ==
  IF moveA = "C" /\ moveB = "C" THEN <<PD_R, PD_R>>
  ELSE IF moveA = "C" /\ moveB = "D" THEN <<PD_S, PD_T>>
  ELSE IF moveA = "D" /\ moveB = "C" THEN <<PD_T, PD_S>>
  ELSE <<PD_P, PD_P>>

\* ============================================================ part_002 ===
\* Classic strategies of the fishbowl (part_001 / part_002): fn(history).
C_ALWAYS_fn(history) == "C"

D_ALWAYS_fn(history) == "D"

\* Mutant: mirrors its own last move.
TIT_FOR_TAT_ownMove(history) ==
  IF Len(history) = 0 THEN "C" ELSE Last(history).self

TIT_FOR_TAT_fn(history) ==
  IF Len(history) = 0 THEN "C" ELSE Last(history).opponent

\* Mutant: looks at the last round only.
GRIM_lastRoundOnly(history) ==
  IF Len(history) > 0 /\ Last(history).opponent = "D" THEN "D" ELSE "C"

GRIM_fn(history) ==
  IF \E k \in 1..Len(history) : history[k].opponent = "D" THEN "D" ELSE "C"

\* Draws Math.random only when the opponent's last move was D.
GENEROUS_TIT_FOR_TAT_fn(history, tape, pos) ==
  IF Len(history) = 0 THEN [move |-> "C", pos |-> pos]
  ELSE IF Last(history).opponent = "C" THEN [move |-> "C", pos |-> pos]
  ELSE [move |-> IF Draw(tape, pos) * 10 < RandScale THEN "C" ELSE "D",
        pos |-> Adv(tape, pos)]

RANDOM_fn(history, tape, pos) ==
  [move |-> IF Draw(tape, pos) * 2 < RandScale THEN "C" ELSE "D",
   pos |-> Adv(tape, pos)]

\* ------------------------------------------------------------- Q_LEARNER
QScale == 100000

\* this.qTable[key] || 0
QGet(qTable, key) == IF key \in DOMAIN qTable THEN qTable[key] ELSE 0

\* Mutant: "start" until three rounds are played.
getStateFromThree(history) ==
  IF Len(history) < 3 THEN "start" ELSE JoinOpponent(SliceLast(history, 3))

getState(history) ==
  IF Len(history) = 0 THEN "start" ELSE JoinOpponent(SliceLast(history, 3))

\* Mutant: exploiting, a tie cooperates.
Q_LEARNER_tieCooperates(history, qTable, tape, pos) ==
  LET state == getState(history)
  IN IF Draw(tape, pos) * 10 < RandScale
     THEN [move |-> IF Draw(tape, Adv(tape, pos)) * 2 < RandScale THEN "C" ELSE "D",
           pos |-> Adv(tape, Adv(tape, pos))]
     ELSE [move |-> IF QGet(qTable, state \o "_C") >= QGet(qTable, state \o "_D")
                    THEN "C" ELSE "D",
           pos |-> Adv(tape, pos)]

\* epsilon = 0.1: explore with a second draw, else exploit (C only if qC > qD).
Q_LEARNER_fn(history, qTable, tape, pos) ==
  LET state == getState(history)
  IN IF Draw(tape, pos) * 10 < RandScale
     THEN [move |-> IF Draw(tape, Adv(tape, pos)) * 2 < RandScale THEN "C" ELSE "D",
           pos |-> Adv(tape, Adv(tape, pos))]
     ELSE [move |-> IF QGet(qTable, state \o "_C") > QGet(qTable, state \o "_D")
                    THEN "C" ELSE "D",
           pos |-> Adv(tape, pos)]

\* Mutant: the estimate of the next state is not discounted (gamma = 1).
updateQUndiscounted(qTable, state, action, reward, nextState) ==
  LET key == state \o "_" \o action
      current == QGet(qTable, key)
      qC == QGet(qTable, nextState \o "_C")
      qD == QGet(qTable, nextState \o "_D")
      nextMax == IF qC >= qD THEN qC ELSE qD
      new == current + ((10 * reward * QScale + 10 * nextMax - 10 * current) \div 100)
  IN [k \in (DOMAIN qTable) \cup {key} |-> IF k = key THEN new ELSE qTable[k]]

\* current + alpha * (reward + gamma * nextMax - current), alpha = 0.1,
\* gamma = 0.9, in units of 1/QScale.
updateQ(qTable, state, action, reward, nextState) ==
  LET key == state \o "_" \o action
      current == QGet(qTable, key)
      qC == QGet(qTable, nextState \o "_C")
      qD == QGet(qTable, nextState \o "_D")
      nextMax == IF qC >= qD THEN qC ELSE qD
      new == current + ((10 * reward * QScale + 9 * nextMax - 10 * current) \div 100)
  IN [k \in (DOMAIN qTable) \cup {key} |-> IF k = key THEN new ELSE qTable[k]]

\* --------------------------------------------------------- FREQ_ANALYSIS
\* Mutant: cooperates at a cooperation rate of exactly 0.6.
FREQ_ANALYSIS_atThreshold(history) ==
  IF Len(history) < 5 THEN "C"
  ELSE LET coop == Cardinality({k \in 1..Len(history) : history[k].opponent = "C"})
       IN IF coop * 10 >= 6 * Len(history) THEN "C" ELSE "D"

\* cooperationRate > 0.6 with cooperationRate = coop / history.length
FREQ_ANALYSIS_fn(history) ==
  IF Len(history) < 5 THEN "C"
  ELSE LET coop == Cardinality({k \in 1..Len(history) : history[k].opponent = "C"})
       IN IF coop * 10 > 6 * Len(history) THEN "C" ELSE "D"

\* ------------------------------------------------------ PATTERN_DETECTOR
Min(a, b) == IF a <= b THEN a ELSE b

\* The window lengths 2..min(4, history.length) whose window is in the table.
PatternHits(history, patterns) ==
  {pl \in 2..Min(4, Len(history)) :
     JoinOpponent(SliceLast(history, pl)) \in DOMAIN patterns}

\* Mutant: the longest window of the table decides.
PATTERN_DETECTOR_longestFirst(history, patterns) ==
  IF Len(history) < 4 THEN "C"
  ELSE LET hits == PatternHits(history, patterns)
       IN IF hits = {} THEN "C"
          ELSE LET pl == CHOOSE p \in hits : \A q \in hits : p >= q
                   predictions == patterns[JoinOpponent(SliceLast(history, pl))]
               IN IF predictions.C > predictions.D THEN "C" ELSE "D"

PATTERN_DETECTOR_fn(history, patterns) ==
  IF Len(history) < 4 THEN "C"
  ELSE LET hits == PatternHits(history, patterns)
       IN IF hits = {} THEN "C"
          ELSE LET pl == CHOOSE p \in hits : \A q \in hits : p <= q
                   predictions == patterns[JoinOpponent(SliceLast(history, pl))]
               IN IF predictions.C > predictions.D THEN "C" ELSE "D"

RECURSIVE updatePatternsFrom(_, _, _)
\* The loop of updatePatterns from window length pl on.
updatePatternsFrom(patterns, history, pl) ==
  IF pl > Min(4, Len(history) - 1) THEN patterns
  ELSE LET pattern == JoinOpponent(SliceBeforeLast(history, pl))
           nextMove == Last(history).opponent
           old == IF pattern \in DOMAIN patterns THEN patterns[pattern]
                  ELSE [C |-> 0, D |-> 0]
           new == [old EXCEPT ![nextMove] = @ + 1]
       IN updatePatternsFrom(
            [k \in (DOMAIN patterns) \cup {pattern} |->
               IF k = pattern THEN new ELSE patterns[k]],
            history, pl + 1)

\* Mutant: the windows of two moves are not recorded.
updatePatternsFromThree(patterns, history) ==
  IF Len(history) < 3 THEN patterns ELSE updatePatternsFrom(patterns, history, 3)

updatePatterns(patterns, history) ==
  IF Len(history) < 3 THEN patterns ELSE updatePatternsFrom(patterns, history, 2)

\* --------------------------------------------------------- META_STRATEGY
MetaStrategies == <<"C", "D", "TFT", "FREQ">>

RECURSIVE MetaBest(_, _, _, _)
\* The for-loop of the re-evaluation: best is <<strategy, perf, count>>, the
\* average perf/count compared as a fraction (count = 0 stands for 0).
MetaBest(meta, k, bestStrategy, bestPerf) ==
  IF k > Len(MetaStrategies) THEN bestStrategy
  ELSE LET s == MetaStrategies[k]
       IN IF meta.counts[s] > 0
             /\ meta.performance[s] * bestPerf[2] > bestPerf[1] * meta.counts[s]
          THEN MetaBest(meta, k + 1, s, <<meta.performance[s], meta.counts[s]>>)
          ELSE MetaBest(meta, k + 1, bestStrategy, bestPerf)

\* Mutant: from round 10 on the Meta-Strategist switches to D.
MetaCurrentSwitches(history, meta) ==
  IF Len(history) >= 10 THEN "D" ELSE meta.currentStrategy

\* The strategy the Meta-Strategist plays this round (this.currentStrategy
\* after the optional re-evaluation).
MetaCurrent(history, meta) ==
  IF Len(history) > 10 /\ Len(history) % 10 = 0
  THEN MetaBest(meta, 1, meta.currentStrategy,
                IF meta.counts[meta.currentStrategy] > 0
                THEN <<meta.performance[meta.currentStrategy],
                       meta.counts[meta.currentStrategy]>>
                ELSE <<0, 1>>)
  ELSE meta.currentStrategy

META_STRATEGY_fn(history, meta) ==
  LET cur == MetaCurrent(history, meta)
  IN [move |-> CASE cur = "C" -> "C"
                 [] cur = "D" -> "D"
                 [] cur = "TFT" -> IF Len(history) = 0 THEN "C"
                                   ELSE Last(history).opponent
                 [] cur = "FREQ" ->
                      IF Len(history) < 5 THEN "C"
                      ELSE LET coop == Cardinality({k \in 1..Len(history) :
                                                      history[k].opponent = "C"})
                           IN IF coop * 10 > 6 * Len(history) THEN "C" ELSE "D"
                 [] OTHER -> "C",
      currentStrategy |-> cur]

updatePerformance(meta, strategy, reward) ==
  [meta EXCEPT !.performance[strategy] = @ + reward,
               !.counts[strategy] = @ + 1]

\* The module-level AdaptiveAgents objects at load time.
InitLearned ==
  [qTable |-> <<>>,
   patterns |-> <<>>,
   meta |-> [performance |-> [s \in {"C", "D", "TFT", "FREQ"} |-> 0],
             counts |-> [s \in {"C", "D", "TFT", "FREQ"} |-> 0],
             currentStrategy |-> "TFT"]]

\* -------------------------------------------------------------- roster
\* ClassicStrategies then AdaptiveAgents, in the order of the agent
\* initialization effect (10 agents: nothing is trimmed).
FishbowlIds ==
  <<"C_ALWAYS", "D_ALWAYS", "TIT_FOR_TAT", "GRIM", "GENEROUS_TIT_FOR_TAT",
    "RANDOM", "Q_LEARNER", "FREQ_ANALYSIS", "PATTERN_DETECTOR", "META_STRATEGY">>

FishbowlNames ==
  <<"Always Cooperate", "Always Defect", "Tit-for-Tat", "Grim Trigger",
    "Generous Tit-for-Tat", "Random", "Q-Learning Agent", "Frequency Analyzer",
    "Pattern Detective", "Meta-Strategist">>

NumClassicFishbowl == 6

\* newAgents of the agent initialization effect.  myHistory is the number of
\* records of the agent's myHistory array: playGame pushes to it the records
\* it pushes to historyA / historyB, and no code reads its elements.
InitFishbowlAgents ==
  [k \in 1..AGENT_COUNT |->
     [id |-> (IF k <= NumClassicFishbowl THEN "classic_" ELSE "adaptive_")
               \o FishbowlIds[k],
      name |-> FishbowlNames[k],
      fn |-> FishbowlIds[k],
      isClassic |-> k <= NumClassicFishbowl,
      score |-> 0,
      history |-> <<>>,
      myHistory |-> 0]]

\* agent.strategy(history, myHistory): the move, the Math.random stream after
\* the call and the learned state after the call (the Meta-Strategist's fn
\* assigns this.currentStrategy).
strategy(agent, history, L, tape, pos) ==
  LET det(mv) == [move |-> mv, pos |-> pos, L |-> L]
      rnd(r) == [move |-> r.move, pos |-> r.pos, L |-> L]
  IN CASE agent.fn = "C_ALWAYS" -> det(C_ALWAYS_fn(history))
       [] agent.fn = "D_ALWAYS" -> det(D_ALWAYS_fn(history))
       [] agent.fn = "TIT_FOR_TAT" -> det(TIT_FOR_TAT_fn(history))
       [] agent.fn = "GRIM" -> det(GRIM_fn(history))
       [] agent.fn = "GENEROUS_TIT_FOR_TAT" ->
            rnd(GENEROUS_TIT_FOR_TAT_fn(history, tape, pos))
       [] agent.fn = "RANDOM" -> rnd(RANDOM_fn(history, tape, pos))
       [] agent.fn = "Q_LEARNER" -> rnd(Q_LEARNER_fn(history, L.qTable, tape, pos))
       [] agent.fn = "FREQ_ANALYSIS" -> det(FREQ_ANALYSIS_fn(history))
       [] agent.fn = "PATTERN_DETECTOR" ->
            det(PATTERN_DETECTOR_fn(history, L.patterns))
       [] agent.fn = "META_STRATEGY" ->
            LET r == META_STRATEGY_fn(history, L.meta)
            IN [move |-> r.move, pos |-> pos,
                L |-> [L EXCEPT !.meta.currentStrategy = r.currentStrategy]]

\* ------------------------------------------------------------- playGame
\* if (!agent.isClassic && agent.agent.updateQ) agent.agent.updateQ(
\*   getState(history.slice(0, -1)), move, payoff, getState(history))
learnQ(agent, L, history, move, payoff) ==
  IF ~agent.isClassic /\ agent.fn = "Q_LEARNER"
  THEN [L EXCEPT !.qTable = updateQ(@, getState(Front(history)), move, payoff,
                                    getState(history))]
  ELSE L

\* if (!agent.isClassic && agent.agent.updatePatterns) updatePatterns(history)
learnPatterns(agent, L, history) ==
  IF ~agent.isClassic /\ agent.fn = "PATTERN_DETECTOR"
  THEN [L EXCEPT !.patterns = updatePatterns(@, history)]
  ELSE L

\* if (!agent.isClassic && agent.agent.updatePerformance)
\*   updatePerformance(agent.agent.currentStrategy, payoff)
learnPerformance(agent, L, payoff) ==
  IF ~agent.isClassic /\ agent.fn = "META_STRATEGY"
  THEN [L EXCEPT !.meta = updatePerformance(@, L.meta.currentStrategy, payoff)]
  ELSE L

\* The rest of an iteration of playGame once both moves are chosen (a, b:
\* what strategy returned for agentA and agentB): payoffs, scores, the four
\* pushes, then the updates of the learning agents in the order of the code.
recordRound(agentA, agentB, m, a, b) ==
  LET payoffA == inlinePayoff(a.move, b.move)[1]
      payoffB == inlinePayoff(a.move, b.move)[2]
      historyA == Append(m.historyA,
                         [self |-> a.move, opponent |-> b.move, payoff |-> payoffA])
      historyB == Append(m.historyB,
                         [self |-> b.move, opponent |-> a.move, payoff |-> payoffB])
  IN [historyA |-> historyA,
      historyB |-> historyB,
      scoreA |-> m.scoreA + payoffA,
      scoreB |-> m.scoreB + payoffB,
      myHistoryA |-> m.myHistoryA + 1,
      myHistoryB |-> m.myHistoryB + 1,
      L |-> learnPerformance(agentB,
              learnPerformance(agentA,
                learnPatterns(agentB,
                  learnPatterns(agentA,
                    learnQ(agentB,
                      learnQ(agentA, b.L, historyA, a.move, payoffA),
                      historyB, b.move, payoffB),
                    historyA),
                  historyB),
                payoffA),
              payoffB),
      pos |-> b.pos]

\* const moveB = agentB.strategy(historyB, agentB.myHistory), after moveA.
secondMove(agentA, agentB, m, tape, a) ==
  recordRound(agentA, agentB, m, a,
              strategy(agentB, m.historyB, a.L, tape, a.pos))

\* One iteration of the for-loop of playGame.  m holds the locals of
\* playGame (historyA, historyB, scoreA, scoreB), the two agents' myHistory
\* arrays, the learned state L and the Math.random stream position.
playRound(agentA, agentB, m, tape) ==
  secondMove(agentA, agentB, m, tape,
             strategy(agentA, m.historyA, m.L, tape, m.pos))

RECURSIVE playRoundsInclusive(_, _, _, _, _)
\* Mutant: round <= ITERATED_LENGTH.
playRoundsInclusive(agentA, agentB, m, tape, round) ==
  IF round <= ITERATED_LENGTH
  THEN playRoundsInclusive(agentA, agentB, playRound(agentA, agentB, m, tape),
                           tape, round + 1)
  ELSE m

RECURSIVE playRounds(_, _, _, _, _)
playRounds(agentA, agentB, m, tape, round) ==
  IF round < ITERATED_LENGTH
  THEN playRounds(agentA, agentB, playRound(agentA, agentB, m, tape), tape, round + 1)
  ELSE m

\* playGame(agentA, agentB) run with learned state L and the stream at pos:
\* its return value { scoreA, scoreB, historyA, historyB } and what it
\* mutated in place (the myHistory arrays, the AdaptiveAgents objects).
playGame(agentA, agentB, L, tape, pos) ==
  playRounds(agentA, agentB,
             [historyA |-> <<>>, historyB |-> <<>>, scoreA |-> 0, scoreB |-> 0,
              myHistoryA |-> agentA.myHistory, myHistoryB |-> agentB.myHistory,
              L |-> L, pos |-> pos],
             tape, 0)

\* ============================================================ part_000 ===
\* Classic strategies of the hover variant: fn(history) over { me, opp }.
TFT_fn(history) ==
  IF Len(history) = 0 THEN "C" ELSE Last(history).opp

GRIM_hover_fn(history) ==
  IF \E k \in 1..Len(history) : history[k].opp = "D" THEN "D" ELSE "C"

\* Mutant: the punishment P counts as a good outcome too.
PAVLOV_staysOnP(history) ==
  IF Len(history) = 0 THEN "C"
  ELSE LET last == Last(history)
           payoff == payoffFor(last.me, last.opp)
       IN IF payoff = PD_R \/ payoff = PD_T \/ payoff = PD_P THEN last.me
          ELSE IF last.me = "C" THEN "D" ELSE "C"

PAVLOV_fn(history) ==
  IF Len(history) = 0 THEN "C"
  ELSE LET last == Last(history)
           payoff == payoffFor(last.me, last.opp)
       IN IF payoff = PD_R \/ payoff = PD_T THEN last.me
          ELSE IF last.me = "C" THEN "D" ELSE "C"

HoverIds == <<"C_ALWAYS", "D_ALWAYS", "TFT", "RANDOM", "GRIM", "PAVLOV">>

HoverNames ==
  <<"Always Cooperate", "Always Defect", "Tit for Tat", "Random", "Grim Trigger",
    "Pavlov (Win-Stay, Lose-Shift)">>

NumClassicHover == 6

AdaptiveNames == <<"Adaptive-1", "Adaptive-2", "Adaptive-3", "Adaptive-4">>

\* 0.45 + Math.random() * 0.1, in 1/RandScale.
initialPolicy(r) == 4500 + (r \div 10)

\* createAdaptiveAgent(id) with the stream at pos (two draws).
createAdaptiveAgent(aid, tape, pos) ==
  [id |-> aid,
   name |-> AdaptiveNames[aid],
   fn |-> "ADAPTIVE",
   isClassic |-> FALSE,
   policy |-> [p_afterC |-> initialPolicy(Draw(tape, pos)),
               p_afterD |-> initialPolicy(Draw(tape, Adv(tape, pos)))],
   score |-> 0]

\* initializeAgents(): the classic strategies, then adaptive agents 1, 2, ...
\* up to AGENT_COUNT, each drawing its policy from the stream in turn.
initializeAgents(tape) ==
  [k \in 1..AGENT_COUNT |->
     IF k <= NumClassicHover
     THEN [id |-> HoverIds[k], name |-> HoverNames[k], fn |-> HoverIds[k],
           isClassic |-> TRUE, score |-> 0]
     ELSE createAdaptiveAgent(k - NumClassicHover, tape,
                              (2 * (k - NumClassicHover - 1)) % Len(tape))]

\* The stream position after initializeAgents.
posAfterInitialize(tape) == (2 * (AGENT_COUNT - NumClassicHover)) % Len(tape)

adaptiveDecision(agent, history, tape, pos) ==
  LET p == IF Len(history) = 0 THEN agent.policy.p_afterC
           ELSE IF Last(history).opp = "C" THEN agent.policy.p_afterC
           ELSE agent.policy.p_afterD
  IN [move |-> IF Draw(tape, pos) < p THEN "C" ELSE "D", pos |-> Adv(tape, pos)]

decideMove(agent, history, oppHistory, tape, pos) ==
  IF agent.isClassic
  THEN CASE agent.fn = "C_ALWAYS" -> [move |-> "C", pos |-> pos]
         [] agent.fn = "D_ALWAYS" -> [move |-> "D", pos |-> pos]
         [] agent.fn = "TFT" -> [move |-> TFT_fn(history), pos |-> pos]
         [] agent.fn = "RANDOM" ->
              [move |-> IF Draw(tape, pos) * 2 < RandScale THEN "C" ELSE "D",
               pos |-> Adv(tape, pos)]
         [] agent.fn = "GRIM" -> [move |-> GRIM_hover_fn(history), pos |-> pos]
         [] agent.fn = "PAVLOV" -> [move |-> PAVLOV_fn(history), pos |-> pos]
  ELSE adaptiveDecision(agent, oppHistory, tape, pos)

\* history.push({ me: a, opp: b }); historyB.push({ me: b, opp: a });
\* scoreA += payoffFor(a, b); scoreB += payoffFor(b, a)
pushRound(m, a, b) ==
  [history |-> Append(m.history, [me |-> a.move, opp |-> b.move]),
   historyB |-> Append(m.historyB, [me |-> b.move, opp |-> a.move]),
   scoreA |-> m.scoreA + payoffFor(a.move, b.move),
   scoreB |-> m.scoreB + payoffFor(b.move, a.move),
   pos |-> b.pos]

\* const b = decideMove(B, historyB, history), after a.
decideB(B, m, tape, a) ==
  pushRound(m, a, decideMove(B, m.historyB, m.history, tape, a.pos))

\* One iteration of the for-loop of runIteratedMatch.
iteratedRound(A, B, m, tape) ==
  decideB(B, m, tape, decideMove(A, m.history, m.historyB, tape, m.pos))

RECURSIVE iteratedRoundsShort(_, _, _, _, _)
\* Mutant: the loop starts at round 1.
iteratedRoundsShort(A, B, m, tape, r) ==
  IF r < ITERATED_LENGTH - 1
  THEN iteratedRoundsShort(A, B, iteratedRound(A, B, m, tape), tape, r + 1)
  ELSE m

RECURSIVE iteratedRounds(_, _, _, _, _)
iteratedRounds(A, B, m, tape, r) ==
  IF r < ITERATED_LENGTH
  THEN iteratedRounds(A, B, iteratedRound(A, B, m, tape), tape, r + 1)
  ELSE m

\* runIteratedMatch(A, B): { history, historyB, scoreA, scoreB } and the
\* stream position after the match.
runIteratedMatch(A, B, tape, pos) ==
  iteratedRounds(A, B,
                 [history |-> <<>>, historyB |-> <<>>, scoreA |-> 0, scoreB |-> 0,
                  pos |-> pos],
                 tape, 0)

RECURSIVE rewardStats(_, _)
\* The for-loop of adaptAgentAfterMatch: coopReward, coopCount, defReward,
\* defCount accumulated into acc.
rewardStats(matches, acc) ==
  IF matches = <<>> THEN acc
  ELSE LET r == matches[1]
           rew == payoffFor(r.me, r.opp)
       IN rewardStats(Tail(matches),
            IF r.me = "C"
            THEN [acc EXCEPT !.coopReward = @ + rew, !.coopCount = @ + 1]
            ELSE [acc EXCEPT !.defReward = @ + rew, !.defCount = @ + 1])

Max(a, b) == IF a >= b THEN a ELSE b

\* Mutant: the raised probabilities are not capped at 0.98.
nudgeUncapped(policy, st) ==
  LET cc == IF st.coopCount > 0 THEN st.coopCount ELSE 1
      dc == IF st.defCount > 0 THEN st.defCount ELSE 1
      num == st.coopReward * dc - st.defReward * cc
      den == cc * dc
  IN IF num > 0
     THEN [p_afterC |-> policy.p_afterC + ((600 * num) \div den),
           p_afterD |-> policy.p_afterD + ((360 * num) \div den)]
     ELSE IF num < 0
     THEN [p_afterC |-> Max(200, policy.p_afterC - ((600 * (-num)) \div den)),
           p_afterD |-> Max(200, policy.p_afterD - ((360 * (-num)) \div den))]
     ELSE policy

\* The policy after the learning nudge (lr = 0.06), before the jitter, from
\* the sums st of the for-loop.  avgC - avgD = num / den with
\* avgC = coopReward / coopCount (0 if no such round) and avgD likewise.
nudge(policy, st) ==
  LET cc == IF st.coopCount > 0 THEN st.coopCount ELSE 1
      dc == IF st.defCount > 0 THEN st.defCount ELSE 1
      num == st.coopReward * dc - st.defReward * cc
      den == cc * dc
  IN IF num > 0
     THEN [p_afterC |-> Min(9800, policy.p_afterC + ((600 * num) \div den)),
           p_afterD |-> Min(9800, policy.p_afterD + ((360 * num) \div den))]
     ELSE IF num < 0
     THEN [p_afterC |-> Max(200, policy.p_afterC - ((600 * (-num)) \div den)),
           p_afterD |-> Max(200, policy.p_afterD - ((360 * (-num)) \div den))]
     ELSE policy

nudgedPolicy(policy, matches) ==
  nudge(policy, rewardStats(matches, [coopReward |-> 0, coopCount |-> 0,
                                      defReward |-> 0, defCount |-> 0]))

\* Mutant: the jitter is not reclamped.
jitterUnclamped(p, r) == p + ((r - 5000) \div 50)

\* p + (Math.random() - 0.5) * 0.02 clamped to [0.01, 0.99]
jitter(p, r) == Min(9900, Max(100, p + ((r - 5000) \div 50)))

\* adaptAgentAfterMatch(agent, matches): the agent's policy afterwards (two
\* draws for the jitter).
jitterPolicy(n, tape, pos) ==
  [p_afterC |-> jitter(n.p_afterC, Draw(tape, pos)),
   p_afterD |-> jitter(n.p_afterD, Draw(tape, Adv(tape, pos)))]

adaptAgentAfterMatch(agent, matches, tape, pos) ==
  jitterPolicy(nudgedPolicy(agent.policy, matches), tape, pos)

\* =========================================================== scheduler ===
\* The run stops when currentTick > 500.
LAST_TICK == 500

\* Frame periods of the display, in ms (time between two animation frames).
FramePeriods == {100, 300, 700}

VARIABLES
  variant,         \* "hover" | "timer" | "raf": the mounted component
  strictDev,       \* development build: StrictMode invokes state updaters twice
  agents,          \* React state agents (hover: the localAgents objects)
  learned,         \* the AdaptiveAgents objects (qTable, patterns, meta)
  rng,             \* Math.random: [tape, pos]
  running,         \* React state running
  tick,            \* React state tick
  currentTick,     \* let currentTick of each call of startSimulation (by run)
  scheduled,       \* runs whose interval (hover, timer) or frame (raf) is pending
  runningRef,      \* raf: runningRef.current
  rafIdRef,        \* raf: the run whose frame request rafIdRef.current holds, 0: none
  framePeriod,     \* raf: ms between two animation frames
  now,             \* raf: timestamp of the latest animation frame
  lastTs,          \* raf: lastTsRef.current
  acc,             \* raf: accRef.current
  lastInteraction, \* raf: React state lastInteraction
  lastMatch,       \* indices and result of the latest match applied
  matchLog,        \* <<idxA, idxB, scoreA, scoreB>> of each match of the run
  runs,            \* number of calls of startSimulation that started a run
  horizon,         \* ticks explored per run
  forced           \* forced pairing <<idxA, idxB>> of a single match, or <<>>

vars ==
  <<variant, strictDev, agents, learned, rng, running, tick, currentTick,
    scheduled, runningRef, rafIdRef, framePeriod, now, lastTs, acc, lastInteraction, lastMatch,
    matchLog, runs, horizon, forced>>

NoMatch ==
  [idxA |-> 0, idxB |-> 0, scoreA |-> 0, scoreB |-> 0,
   historyA |-> <<>>, historyB |-> <<>>, invocations |-> 0]

NoInteraction == [A |-> "", B |-> "", aMove |-> "", bMove |-> "", pA |-> 0, pB |-> 0]

\* ------------------------------------------------------ pair selection
\* Mutant: the membership test never finds the index.
includesNever(indices, idx) == FALSE

\* indices.includes(idx)
includes(indices, idx) == \E k \in 1..Len(indices) : indices[k] = idx

RECURSIVE pickIndices(_, _, _, _, _)
\* while (indices.length < 2) { idx = floor(random * n); if (!includes) push }
\* fuel: draws left before the cyclic stream has repeated a whole period
\* without a second index (the loop then never ends: ok = FALSE).
pickIndices(indices, n, tape, pos, fuel) ==
  IF Len(indices) >= 2 THEN [ok |-> TRUE, indices |-> indices, pos |-> pos]
  ELSE IF fuel = 0 THEN [ok |-> FALSE, indices |-> indices, pos |-> pos]
  ELSE LET idx == randIndex(Draw(tape, pos), n)
       IN pickIndices(IF ~includes(indices, idx) THEN Append(indices, idx)
                      ELSE indices,
                      n, tape, Adv(tape, pos), fuel - 1)

\* the redraw condition of the hover variant: while (j === i)
sameIndex(i, j) == j = i

RECURSIVE redrawJ(_, _, _, _, _, _)
redrawJ(i, j, n, tape, pos, fuel) ==
  IF ~sameIndex(i, j) THEN [ok |-> TRUE, indices |-> <<i, j>>, pos |-> pos]
  ELSE IF fuel = 0 THEN [ok |-> FALSE, indices |-> <<i, j>>, pos |-> pos]
  ELSE redrawJ(i, randIndex(Draw(tape, pos), n), n, tape, Adv(tape, pos), fuel - 1)

\* i = floor(random * n); j = floor(random * n); while (j === i) j = ...
pickHover(n, tape, pos) ==
  redrawJ(randIndex(Draw(tape, pos), n),
          randIndex(Draw(tape, Adv(tape, pos)), n),
          n, tape, Adv(tape, Adv(tape, pos)), Len(tape))

\* ------------------------------------------------- the setAgents updater
\* Mutant: the match score is taken from the cumulative score.
addScoreSubtracts(score, matchScore) == score - matchScore

\* Mutant: the match score replaces the cumulative score.
addScoreOverwrites(score, matchScore) == matchScore

\* agentA.score += result.scoreA
addScore(score, matchScore) == score + matchScore

\* The updater of runOneMatch after playGame returned result: the scores
\* and histories of the two shallow copies, the new roster, the interaction
\* event, and what playGame mutated in place (learned state, myHistory, the
\* random stream).
applyResult(currentAgents, idxA, idxB, result) ==
  LET agentA == currentAgents[idxA + 1]
      agentB == currentAgents[idxB + 1]
      newA == [agentA EXCEPT !.score = addScore(@, result.scoreA),
                             !.history = result.historyA,
                             !.myHistory = result.myHistoryA]
      newB == [agentB EXCEPT !.score = addScore(@, result.scoreB),
                             !.history = result.historyB,
                             !.myHistory = result.myHistoryB]
      lastARound == Last(result.historyA)
      lastBRound == Last(result.historyB)
  IN [ok |-> TRUE,
      played |-> TRUE,
      agents |-> [currentAgents EXCEPT ![idxA + 1] = newA, ![idxB + 1] = newB],
      L |-> result.L,
      pos |-> result.pos,
      match |-> [idxA |-> idxA, idxB |-> idxB,
                 scoreA |-> result.scoreA, scoreB |-> result.scoreB,
                 historyA |-> result.historyA, historyB |-> result.historyB,
                 invocations |-> 1],
      interaction |-> [A |-> agentA.name, B |-> agentB.name,
                       aMove |-> lastARound.self, bMove |-> lastBRound.self,
                       pA |-> lastARound.payoff, pB |-> lastBRound.payoff]]

\* The updater of runOneMatch after the pair is chosen: playGame on shallow
\* copies of the two agents.
matchUpdate(currentAgents, idxA, idxB, L, tape, pos) ==
  applyResult(currentAgents, idxA, idxB,
              playGame(currentAgents[idxA + 1], currentAgents[idxB + 1], L, tape,
                       pos))

\* The updater of runOneMatch once the while loop of the selection has ended
\* (pk) or cannot end (~pk.ok).
updateWith(currentAgents, L, tape, pk) ==
  IF ~pk.ok
  THEN [ok |-> FALSE, played |-> FALSE, agents |-> currentAgents,
        L |-> L, pos |-> pk.pos, match |-> NoMatch,
        interaction |-> NoInteraction]
  ELSE matchUpdate(currentAgents, pk.indices[1], pk.indices[2], L, tape, pk.pos)

\* The function passed to setAgents by runOneMatch, called once.
updater(currentAgents, L, tape, pos) ==
  IF Len(currentAgents) < 2
  THEN [ok |-> TRUE, played |-> FALSE, agents |-> currentAgents, L |-> L,
        pos |-> pos, match |-> NoMatch, interaction |-> NoInteraction]
  ELSE updateWith(currentAgents, L, tape,
                  pickIndices(<<>>, Len(currentAgents), tape, pos, Len(tape) + 1))

\* The second call of the updater under StrictMode, after the call that
\* returned first: the same state, but what the first call mutated in place
\* (the shared myHistory arrays, the AdaptiveAgents objects, the random
\* stream) stays.
secondCall(currentAgents, tape, first) ==
  [updater([k \in 1..Len(currentAgents) |->
              [currentAgents[k] EXCEPT !.myHistory = first.agents[k].myHistory]],
           first.L, tape, first.pos)
     EXCEPT !.match.invocations = 2]

\* What React keeps of the updater call(s) of one setAgents.
keptCall(currentAgents, tape, strict, first) ==
  IF ~strict \/ ~first.ok THEN first ELSE secondCall(currentAgents, tape, first)

\* React applies the updater to the current state.  In a development build
\* under StrictMode it calls the updater twice with the same state and keeps
\* the second result.
applyUpdater(currentAgents, L, tape, pos, strict) ==
  keptCall(currentAgents, tape, strict, updater(currentAgents, L, tape, pos))

\* runOneMatch() of the closure of run r once setAgents applied u:
\* setTick(currentTick); currentTick++; stop after tick LAST_TICK (raf:
\* runningRef.current = false; setRunning(false)).
afterSetAgents(st, r, isRaf, u) ==
  [st EXCEPT !.ok = u.ok,
             !.agents = u.agents,
             !.learned = u.L,
             !.pos = u.pos,
             !.lastMatch = IF u.played THEN u.match ELSE @,
             !.matchLog = IF u.played
                          THEN Append(@, <<u.match.idxA, u.match.idxB,
                                           u.match.scoreA, u.match.scoreB>>)
                          ELSE @,
             !.lastInteraction = IF u.played /\ isRaf THEN u.interaction ELSE @,
             !.tick = st.currentTick[r],
             !.currentTick[r] = st.currentTick[r] + 1,
             !.runningRef = IF isRaf /\ st.currentTick[r] + 1 > LAST_TICK
                            THEN FALSE ELSE @,
             !.running = IF st.currentTick[r] + 1 > LAST_TICK THEN FALSE ELSE @]

\* runOneMatch() of the closure of run r on the simulation state st.
runOneMatch(st, r, tape, strict, isRaf) ==
  afterSetAgents(st, r, isRaf,
                 applyUpdater(st.agents, st.learned, tape, st.pos, strict))

\* The simulation state the handlers work on.
SimState ==
  [ok |-> TRUE, agents |-> agents, learned |-> learned, pos |-> rng.pos,
   lastMatch |-> lastMatch, matchLog |-> matchLog,
   lastInteraction |-> lastInteraction, tick |-> tick,
   currentTick |-> currentTick, runningRef |-> runningRef, running |-> running,
   lastTs |-> lastTs, acc |-> acc, rafIdRef |-> rafIdRef,
   pendingNow |-> scheduled, pendingNext |-> {}]

\* The variables take the values of st.
Commit(st) ==
  /\ st.ok
  /\ agents' = st.agents
  /\ learned' = st.learned
  /\ rng' = [rng EXCEPT !.pos = st.pos]
  /\ lastMatch' = st.lastMatch
  /\ matchLog' = st.matchLog
  /\ lastInteraction' = st.lastInteraction
  /\ tick' = st.tick
  /\ currentTick' = st.currentTick
  /\ runningRef' = st.runningRef
  /\ running' = st.running
  /\ lastTs' = st.lastTs
  /\ acc' = st.acc
  /\ rafIdRef' = st.rafIdRef

\* ------------------------------------------------------------ hover tick
\* The setInterval callback of the hover variant after runIteratedMatch
\* returned outcome: the scores, then the adaptation of adaptive agents.
hoverApply(localAgents, pk, tape, outcome) ==
  LET i == pk.indices[1]
      j == pk.indices[2]
      A == localAgents[i + 1]
      B == localAgents[j + 1]
      posA == IF A.isClassic THEN outcome.pos ELSE Adv(tape, Adv(tape, outcome.pos))
      posB == IF B.isClassic THEN posA ELSE Adv(tape, Adv(tape, posA))
  IN [ok |-> pk.ok,
      agents |->
        [localAgents EXCEPT
           ![i + 1] =
             IF A.isClassic THEN [A EXCEPT !.score = addScore(@, outcome.scoreA)]
             ELSE [A EXCEPT !.score = addScore(@, outcome.scoreA),
                            !.policy = adaptAgentAfterMatch(A, outcome.history,
                                                            tape, outcome.pos)],
           ![j + 1] =
             IF B.isClassic THEN [B EXCEPT !.score = addScore(@, outcome.scoreB)]
             ELSE [B EXCEPT !.score = addScore(@, outcome.scoreB),
                            !.policy = adaptAgentAfterMatch(B, outcome.historyB,
                                                            tape, posA)]],
      pos |-> posB,
      match |-> [idxA |-> i, idxB |-> j,
                 scoreA |-> outcome.scoreA, scoreB |-> outcome.scoreB,
                 historyA |-> outcome.history, historyB |-> outcome.historyB,
                 invocations |-> 1]]

\* The callback once the pair pk is selected.
hoverPlay(localAgents, tape, pk) ==
  hoverApply(localAgents, pk, tape,
             runIteratedMatch(localAgents[pk.indices[1] + 1],
                              localAgents[pk.indices[2] + 1], tape, pk.pos))

\* The setInterval callback of the hover variant on the roster (the
\* localAgents objects): pair, match, scores, adaptation of adaptive agents.
hoverMatch(localAgents, tape, pos) ==
  hoverPlay(localAgents, tape, pickHover(Len(localAgents), tape, pos))

\* ------------------------------------------------------------- raf frame
\* cadenceRef.current = 300
CADENCE_MS == 300

RECURSIVE whileMatches(_, _, _, _)
\* while (acc >= cadence && runningRef.current) { acc -= cadence; runOneMatch() }
whileMatches(st, r, tape, strict) ==
  IF st.ok /\ st.acc >= CADENCE_MS /\ st.runningRef
  THEN whileMatches(runOneMatch([st EXCEPT !.acc = @ - CADENCE_MS], r, tape,
                                strict, TRUE),
                    r, tape, strict)
  ELSE st

\* loop(ts) of the closure of run r.
loop(st, r, ts, tape, strict) ==
  IF ~st.runningRef
  THEN \* cancelAnimationFrame(rafIdRef.current); rafIdRef.current = null
       [st EXCEPT !.pendingNext = @ \ {st.rafIdRef},
                  !.pendingNow = IF st.rafIdRef \in st.pendingNext THEN @
                                 ELSE @ \ {st.rafIdRef},
                  !.rafIdRef = 0]
  ELSE LET ts0 == IF st.lastTs = 0 THEN ts ELSE st.lastTs
           dt == ts - ts0
       IN [whileMatches([st EXCEPT !.lastTs = ts, !.acc = @ + dt], r, tape, strict)
             EXCEPT !.rafIdRef = r, !.pendingNext = @ \cup {r}]

RECURSIVE frame(_, _, _, _, _)
\* One animation frame at time ts: the pending callbacks run in the order
\* they were requested (by run), unless cancelled meanwhile.
frame(st, r, ts, tape, strict) ==
  IF r > Len(st.currentTick) THEN st
  ELSE IF r \in st.pendingNow /\ st.ok
       THEN frame(loop([st EXCEPT !.pendingNow = @ \ {r}], r, ts, tape, strict),
                  r + 1, ts, tape, strict)
       ELSE frame(st, r + 1, ts, tape, strict)

\* ---------------------------------------------------------------- actions
IsFishbowl == variant \in {"timer", "raf"}

\* Mutant: the reset clears the histories and keeps the score.
resetAgentKeepsScore(agent, fishbowl) ==
  IF fishbowl
  THEN [agent EXCEPT !.history = <<>>, !.myHistory = 0]
  ELSE agent

\* The reset of startSimulation applied to one agent: fishbowl
\* { ...agent, score: 0, history: [], myHistory: [] }, hover { ...a, score: 0 }.
resetAgent(agent, fishbowl) ==
  IF fishbowl
  THEN [agent EXCEPT !.score = 0, !.history = <<>>, !.myHistory = 0]
  ELSE [agent EXCEPT !.score = 0]

\* Mutant: startSimulation() without its guard on running.
startSimulationUnguarded ==
  /\ forced = <<>>
  /\ runs < MaxRuns
  /\ running' = TRUE
  /\ tick' = 0
  /\ runs' = runs + 1
  /\ currentTick' = Append(currentTick, 0)
  /\ scheduled' = scheduled \cup {runs + 1}
  /\ matchLog' = <<>>
  /\ agents' = [k \in 1..Len(agents) |-> resetAgent(agents[k], IsFishbowl)]
  /\ runningRef' = IF variant = "raf" THEN TRUE ELSE runningRef
  /\ rafIdRef' = IF variant = "raf" THEN runs + 1 ELSE rafIdRef
  /\ UNCHANGED <<variant, strictDev, learned, rng, framePeriod, now, lastTs, acc,
                 lastInteraction, lastMatch, horizon, forced>>

\* Mutant: the reset also restores the AdaptiveAgents objects of load time.
startSimulationForgets ==
  /\ forced = <<>>
  /\ ~running
  /\ runs < MaxRuns
  /\ running' = TRUE
  /\ tick' = 0
  /\ runs' = runs + 1
  /\ currentTick' = Append(currentTick, 0)
  /\ scheduled' = scheduled \cup {runs + 1}
  /\ matchLog' = <<>>
  /\ agents' = [k \in 1..Len(agents) |-> resetAgent(agents[k], IsFishbowl)]
  /\ runningRef' = IF variant = "raf" THEN TRUE ELSE runningRef
  /\ rafIdRef' = IF variant = "raf" THEN runs + 1 ELSE rafIdRef
  /\ learned' = InitLearned
  /\ UNCHANGED <<variant, strictDev, rng, framePeriod, now, lastTs, acc,
                 lastInteraction, lastMatch, horizon, forced>>

\* startSimulation(): the reset and the start of the driver of a new run.
startSimulation ==
  /\ forced = <<>>
  /\ ~running
  /\ runs < MaxRuns
  /\ running' = TRUE
  /\ tick' = 0
  /\ runs' = runs + 1
  /\ currentTick' = Append(currentTick, 0)
  /\ scheduled' = scheduled \cup {runs + 1}
  /\ matchLog' = <<>>
  /\ agents' = [k \in 1..Len(agents) |-> resetAgent(agents[k], IsFishbowl)]
  /\ runningRef' = IF variant = "raf" THEN TRUE ELSE runningRef
  /\ rafIdRef' = IF variant = "raf" THEN runs + 1 ELSE rafIdRef
  /\ UNCHANGED <<variant, strictDev, learned, rng, framePeriod, now, lastTs, acc,
                 lastInteraction, lastMatch, horizon, forced>>

\* setAgents([...localAgents]) with the outcome h of the callback.
CommitHover(h) ==
  /\ h.ok
  /\ agents' = h.agents
  /\ rng' = [rng EXCEPT !.pos = h.pos]
  /\ lastMatch' = h.match
  /\ matchLog' = Append(matchLog, <<h.match.idxA, h.match.idxB,
                                    h.match.scoreA, h.match.scoreB>>)

\* The setInterval callback of the hover variant.
hoverTick ==
  /\ variant = "hover"
  /\ scheduled # {}
  /\ tick < horizon
  /\ CommitHover(hoverMatch(agents, rng.tape, rng.pos))
  /\ tick' = tick + 1
  /\ UNCHANGED <<variant, strictDev, learned, running, currentTick, scheduled,
                 runningRef, rafIdRef, framePeriod, now, lastTs, acc, lastInteraction,
                 runs,
                 horizon, forced>>

\* The setInterval callback of the timer variant (run r): runOneMatch, then
\* clearInterval once currentTick > LAST_TICK.
timerTick ==
  /\ variant = "timer"
  /\ \E r \in scheduled :
       /\ currentTick[r] < horizon
       /\ Commit(runOneMatch(SimState, r, rng.tape, strictDev, FALSE))
       /\ scheduled' = IF currentTick[r] + 1 > LAST_TICK
                       THEN scheduled \ {r} ELSE scheduled
  /\ UNCHANGED <<variant, strictDev, framePeriod, now, runs, horizon, forced>>

\* The state after a frame; the frames requested during it are pending.
CommitFrame(st) ==
  /\ Commit(st)
  /\ scheduled' = st.pendingNext

\* The next animation frame: every pending loop callback runs.
rafFrame ==
  /\ variant = "raf"
  /\ scheduled # {}
  /\ runningRef => currentTick[runs] < horizon
  /\ now' = now + framePeriod
  /\ CommitFrame(frame(SimState, 1, now + framePeriod, rng.tape, strictDev))
  /\ UNCHANGED <<variant, strictDev, framePeriod, runs, horizon, forced>>

\* The result of playGame on the forced pair, recorded.
RecordGame(result) ==
  /\ agents' = IF forced[1] = forced[2] THEN agents
               ELSE [agents EXCEPT
                       ![forced[1] + 1].myHistory = result.myHistoryA,
                       ![forced[2] + 1].myHistory = result.myHistoryB]
  /\ learned' = result.L
  /\ rng' = [rng EXCEPT !.pos = result.pos]
  /\ lastMatch' = [idxA |-> forced[1], idxB |-> forced[2],
                   scoreA |-> result.scoreA, scoreB |-> result.scoreB,
                   historyA |-> result.historyA,
                   historyB |-> result.historyB, invocations |-> 1]

\* The outcome of runIteratedMatch on the forced pair, recorded.
RecordIteratedMatch(outcome) ==
  /\ rng' = [rng EXCEPT !.pos = outcome.pos]
  /\ lastMatch' = [idxA |-> forced[1], idxB |-> forced[2],
                   scoreA |-> outcome.scoreA, scoreB |-> outcome.scoreB,
                   historyA |-> outcome.history,
                   historyB |-> outcome.historyB, invocations |-> 1]
  /\ UNCHANGED <<agents, learned>>

\* A single match between a forced pair (forced = <<idxA, idxB>>): the match
\* function applied to copies of the two roster entries.  idxA = idxB stands
\* for two agents built from the same ClassicStrategies entry.
playMatch ==
  /\ forced # <<>>
  /\ lastMatch = NoMatch
  /\ IF IsFishbowl
     THEN RecordGame(playGame(agents[forced[1] + 1], agents[forced[2] + 1],
                              learned, rng.tape, rng.pos))
     ELSE RecordIteratedMatch(runIteratedMatch(agents[forced[1] + 1],
                                               agents[forced[2] + 1],
                                               rng.tape, rng.pos))
  /\ UNCHANGED <<variant, strictDev, running, tick, currentTick, scheduled,
                 runningRef, rafIdRef, framePeriod, now, lastTs, acc,
                 lastInteraction, matchLog, runs, horizon, forced>>

\* ------------------------------------------------------------ state after mount
Mounted(v, tape) ==
  /\ variant = v
  /\ rng = [tape |-> tape, pos |-> IF v = "hover" THEN posAfterInitialize(tape) ELSE 0]
  /\ agents = IF v = "hover" THEN initializeAgents(tape) ELSE InitFishbowlAgents
  /\ learned = InitLearned
  /\ running = FALSE
  /\ tick = 0
  /\ currentTick = <<>>
  /\ scheduled = {}
  /\ runningRef = FALSE
  /\ rafIdRef = 0
  /\ now = 0
  /\ lastTs = 0
  /\ acc = 0
  /\ lastInteraction = NoInteraction
  /\ lastMatch = NoMatch
  /\ matchLog = <<>>
  /\ runs = 0

Variants == {"hover", "timer", "raf"}

\* Scheduler: any variant and build, streams over RandValues, MaxTicks ticks.
Init ==
  /\ \E v \in Variants, tape \in Tapes(RandValues) : Mounted(v, tape)
  /\ strictDev \in BOOLEAN
  /\ framePeriod \in IF variant = "raf" THEN FramePeriods ELSE {0}
  /\ horizon = MaxTicks
  /\ forced = <<>>

Next ==
  \/ startSimulation
  \/ hoverTick
  \/ timerTick
  \/ rafFrame

Spec == Init /\ [][Next]_vars

\* Whole runs and restarts of the fishbowl: streams over RunRandValues (the
\* roster indices 0 and 6), frames at the cadence, every tick of a run.
RunRandValues == {500, 6500}

InitRun ==
  /\ \E v \in Variants, tape \in [1..RunPeriod -> RunRandValues] : Mounted(v, tape)
  /\ strictDev \in BOOLEAN
  /\ framePeriod = IF variant = "raf" THEN CADENCE_MS ELSE 0
  /\ horizon = LAST_TICK + 1
  /\ forced = <<>>

NextRun ==
  \/ startSimulation
  \/ hoverTick
  \/ timerTick
  \/ rafFrame

SpecRun == InitRun /\ [][NextRun]_vars

\* Single matches: the match function of either engine on any ordered pair
\* of distinct agents or on two agents with the same classic strategy, streams
\* over MatchRandValues.
InitMatch ==
  /\ \E v \in Variants \ {"timer"}, tape \in Tapes(MatchRandValues) : Mounted(v, tape)
  /\ strictDev = FALSE
  /\ framePeriod = 0
  /\ horizon = 0
  /\ forced \in {p \in (0..(AGENT_COUNT - 1)) \X (0..(AGENT_COUNT - 1)) :
                    p[1] # p[2] \/ agents[p[1] + 1].isClassic}

NextMatch == playMatch

SpecMatch == InitMatch /\ [][NextMatch]_vars

\* ------------------------------------------------------------ adaptation
\* The setInterval callback of the hover variant after runIteratedMatch
\* returned on the forced pair: the scores, the adaptation of the adaptive
\* agents, setAgents.
adaptStep ==
  /\ variant = "hover"
  /\ forced # <<>>
  /\ lastMatch # NoMatch
  /\ matchLog = <<>>
  /\ CommitHover(hoverApply(agents,
                            [ok |-> TRUE, indices |-> forced, pos |-> rng.pos],
                            rng.tape,
                            [history |-> lastMatch.historyA,
                             historyB |-> lastMatch.historyB,
                             scoreA |-> lastMatch.scoreA,
                             scoreB |-> lastMatch.scoreB,
                             pos |-> rng.pos]))
  /\ UNCHANGED <<variant, strictDev, learned, running, tick, currentTick, scheduled,
                 runningRef, rafIdRef, framePeriod, now, lastTs, acc,
                 lastInteraction, runs, horizon, forced>>

\* Math.random values of the adaptation streams: 0, 0.5 and the largest value.
AdaptRandValues == {0, 5000, 9999}

\* Policy values an adaptive agent holds after earlier matches: the lower
\* clamp 0.01, the smallest initial value 0.45, the nudge's cap 0.98 and
\* 0.98 raised by the largest jitter.
PriorPolicies == {100, 4500, 9800, 9899}

\* One tick of the hover variant in two steps (the match, then the scores and
\* the adaptation) on any pair with an adaptive agent; Adaptive-1 holds any
\* policy over PriorPolicies, Adaptive-2 the policy of its creation.
InitAdapt ==
  /\ variant = "hover"
  /\ \E tape \in Tapes(AdaptRandValues), pc \in PriorPolicies, pd \in PriorPolicies :
       /\ rng = [tape |-> tape, pos |-> posAfterInitialize(tape)]
       /\ agents = [initializeAgents(tape) EXCEPT
                      ![NumClassicHover + 1].policy = [p_afterC |-> pc, p_afterD |-> pd]]
  /\ learned = InitLearned
  /\ running = FALSE
  /\ tick = 0
  /\ currentTick = <<>>
  /\ scheduled = {}
  /\ runningRef = FALSE
  /\ rafIdRef = 0
  /\ now = 0
  /\ lastTs = 0
  /\ acc = 0
  /\ lastInteraction = NoInteraction
  /\ lastMatch = NoMatch
  /\ matchLog = <<>>
  /\ runs = 0
  /\ strictDev = FALSE
  /\ framePeriod = 0
  /\ horizon = 0
  /\ forced \in {p \in (0..(AGENT_COUNT - 1)) \X (0..(AGENT_COUNT - 1)) :
                    /\ p[1] # p[2]
                    /\ ~agents[p[1] + 1].isClassic \/ ~agents[p[2] + 1].isClassic}

NextAdapt ==
  \/ playMatch
  \/ adaptStep

SpecAdapt == InitAdapt /\ [][NextAdapt]_vars

\* ================================================================ claims ===
Played == lastMatch.invocations > 0

\* The agents of the latest match.
MatchA == agents[lastMatch.idxA + 1]
MatchB == agents[lastMatch.idxB + 1]

\* The move pairs <<own, opponent>> of side A over the latest match.
MovePairsA ==
  {IF IsFishbowl
   THEN <<lastMatch.historyA[k].self, lastMatch.historyA[k].opponent>>
   ELSE <<lastMatch.historyA[k].me, lastMatch.historyA[k].opp>> :
     k \in 1..Len(lastMatch.historyA)}

\* The payoff matrix of the specification.
MatrixPayoff(own, other) ==
  CASE own = "C" /\ other = "C" -> 3
    [] own = "C" /\ other = "D" -> 0
    [] own = "D" /\ other = "C" -> 5
    [] own = "D" /\ other = "D" -> 1

RECURSIVE SumMatrix(_)
SumMatrix(pairs) ==
  IF pairs = <<>> THEN 0
  ELSE MatrixPayoff(pairs[1][1], pairs[1][2]) + SumMatrix(Tail(pairs))

\* C1: the round payoff is the fixed matrix (C,C)=3, (C,D)=0, (D,C)=5,
\* (D,D)=1 on all four move pairs, and the payoff playGame computes inline for
\* each side of every round is payoffFor(own move, opponent's move).
C1_PayoffMatrix ==
  /\ \A own \in {"C", "D"}, other \in {"C", "D"} :
       /\ payoffFor(own, other) = MatrixPayoff(own, other)
       /\ inlinePayoff(own, other) = <<payoffFor(own, other), payoffFor(other, own)>>
  /\ Played /\ IsFishbowl =>
       \A k \in 1..Len(lastMatch.historyA) :
         /\ lastMatch.historyA[k].payoff =
              payoffFor(lastMatch.historyA[k].self, lastMatch.historyA[k].opponent)
         /\ lastMatch.historyB[k].payoff =
              payoffFor(lastMatch.historyB[k].self, lastMatch.historyB[k].opponent)
  /\ Played /\ ~IsFishbowl =>
       lastMatch.scoreA =
         SumMatrix([k \in 1..Len(lastMatch.historyA) |->
                      <<lastMatch.historyA[k].me, lastMatch.historyA[k].opp>>])

\* A fishbowl match in which all four move pairs occurred.
C1_Witness ==
  /\ Played
  /\ IsFishbowl
  /\ MovePairsA = {"C", "D"} \X {"C", "D"}

\* The latest match as sequences of move pairs <<own, opponent>>, side A and
\* side B.
PairsOf(h) ==
  [k \in 1..Len(h) |->
     IF IsFishbowl THEN <<h[k].self, h[k].opponent>> ELSE <<h[k].me, h[k].opp>>]

PairsA == PairsOf(lastMatch.historyA)

PairsB == PairsOf(lastMatch.historyB)

\* C2: 20 rounds between constant strategies: Always Cooperate against itself
\* scores (60,60), Always Defect against itself (20,20), Always Cooperate (A)
\* against Always Defect (B) scores 0 and 100 and every record of A is
\* own move C, opponent move D, payoff 0.
C2_ConstantMatches ==
  Played =>
    /\ MatchA.fn = "C_ALWAYS" /\ MatchB.fn = "C_ALWAYS" =>
         lastMatch.scoreA = 60 /\ lastMatch.scoreB = 60
    /\ MatchA.fn = "D_ALWAYS" /\ MatchB.fn = "D_ALWAYS" =>
         lastMatch.scoreA = 20 /\ lastMatch.scoreB = 20
    /\ MatchA.fn = "C_ALWAYS" /\ MatchB.fn = "D_ALWAYS" =>
         /\ lastMatch.scoreA = 0
         /\ lastMatch.scoreB = 100
         /\ Len(PairsA) = 20
         /\ \A k \in 1..Len(PairsA) : PairsA[k] = <<"C", "D">>
         /\ IsFishbowl => \A k \in 1..Len(PairsA) : lastMatch.historyA[k].payoff = 0

\* The end-to-end scenario: Always Cooperate (A) has played Always Defect (B).
C2_Witness ==
  /\ Played
  /\ MatchA.fn = "C_ALWAYS"
  /\ MatchB.fn = "D_ALWAYS"
  /\ lastMatch.scoreB = 100

\* C3: a match returns two histories of exactly 20 records that mirror each
\* other round by round, every record carries the payoff of its own
\* (self, opponent) pair, and each score is the sum of the payoffs of the
\* side's history.
C3_MirroredHistories ==
  Played =>
    /\ Len(lastMatch.historyA) = 20
    /\ Len(lastMatch.historyB) = 20
    /\ \A k \in 1..Len(PairsA) :
         /\ PairsA[k][1] = PairsB[k][2]
         /\ PairsA[k][2] = PairsB[k][1]
         /\ IsFishbowl =>
              /\ lastMatch.historyA[k].payoff = MatrixPayoff(PairsA[k][1], PairsA[k][2])
              /\ lastMatch.historyB[k].payoff = MatrixPayoff(PairsB[k][1], PairsB[k][2])
    /\ lastMatch.scoreA = SumMatrix(PairsA)
    /\ lastMatch.scoreB = SumMatrix(PairsB)
    /\ IsFishbowl =>
         /\ lastMatch.scoreA = SumPayoff(lastMatch.historyA)
         /\ lastMatch.scoreB = SumPayoff(lastMatch.historyB)

\* A match whose two sides played differently at some round and alike at
\* another, between an adaptive and a classic agent.
C3_Witness ==
  /\ Played
  /\ MatchA.isClassic # MatchB.isClassic
  /\ \E k \in 1..Len(PairsA) : PairsA[k][1] # PairsA[k][2]
  /\ \E k \in 1..Len(PairsA) : PairsA[k][1] = PairsA[k][2]
  /\ lastMatch.scoreA # lastMatch.scoreB

RECURSIVE LogScore(_, _, _)
\* The sum of the match scores of roster index idx over the first n matches
\* of the run.
LogScore(log, idx, n) ==
  IF n = 0 THEN 0
  ELSE LogScore(log, idx, n - 1)
       + (IF log[n][1] = idx THEN log[n][3] ELSE 0)
       + (IF log[n][2] = idx THEN log[n][4] ELSE 0)

\* The number of matches of the run that roster index idx played.
LogMatches(log, idx) ==
  Cardinality({n \in 1..Len(log) : log[n][1] = idx \/ log[n][2] = idx})

\* C4: at any point of a run the cumulative score of every agent is the sum
\* of its match scores over the matches it played since the run started
\* (each tick adds each side's match score to the score before the tick).
C4_CumulativeScore ==
  \A k \in 1..Len(agents) :
    agents[k].score = LogScore(matchLog, k - 1, Len(matchLog))

\* An agent was selected in both matches of a run and scored in both.
C4_Witness ==
  /\ Len(matchLog) = 2
  /\ \E k \in 1..Len(agents) :
       /\ LogMatches(matchLog, k - 1) = 2
       /\ LogScore(matchLog, k - 1, 1) > 0
       /\ agents[k].score > LogScore(matchLog, k - 1, 1)

\* The roster indices the random stream can produce.
TapeIndices(n) == {randIndex(rng.tape[k], n) : k \in 1..Len(rng.tape)}

\* C5: the two roster indices selected by a tick differ, whatever values
\* the random source returns, and with at least two agents the selection
\* completes (from any position of a random stream that yields two
\* different indices at all).
C5_DistinctPair ==
  /\ Played => lastMatch.idxA # lastMatch.idxB
  /\ \A n \in 1..Len(matchLog) : matchLog[n][1] # matchLog[n][2]
  /\ Len(agents) >= 2 /\ Cardinality(TapeIndices(Len(agents))) >= 2 =>
       \A pos \in 0..(Len(rng.tape) - 1) :
         /\ pickIndices(<<>>, Len(agents), rng.tape, pos, Len(rng.tape) + 1).ok
         /\ pickHover(Len(agents), rng.tape, pos).ok

\* A production-build fishbowl tick whose second draw repeated the first
\* index and was drawn again.
C5_Witness ==
  /\ IsFishbowl
  /\ ~strictDev
  /\ runs = 1
  /\ Len(matchLog) = 1
  /\ randIndex(rng.tape[1], Len(agents)) = randIndex(rng.tape[2], Len(agents))
  /\ matchLog[1][1] = randIndex(rng.tape[1], Len(agents))
  /\ matchLog[1][2] = randIndex(rng.tape[3], Len(agents))

\* The number of updatePerformance calls the Meta-Strategist has received.
MetaUpdates ==
  learned.meta.counts["C"] + learned.meta.counts["D"]
  + learned.meta.counts["TFT"] + learned.meta.counts["FREQ"]

\* C6: every tick advances the fishbowl by exactly one 20-round match: the
\* interaction log (myHistory) of each agent holds 20 records per match it
\* was selected for in the run, and the Meta-Strategist's statistics have
\* received 20 updates per match it was selected for, also when React
\* invokes the setAgents updater twice for a tick.
C6_OneMatchPerTick ==
  IsFishbowl =>
    /\ \A k \in 1..Len(agents) :
         agents[k].myHistory = ITERATED_LENGTH * LogMatches(matchLog, k - 1)
    /\ runs <= 1 =>
         MetaUpdates = ITERATED_LENGTH * LogMatches(matchLog, AGENT_COUNT - 1)

\* The same statement for builds in which React calls the updater once.
C6_SingleInvocation == ~strictDev => C6_OneMatchPerTick

\* C7: startSimulation sets the score of every agent to 0 before the first
\* match of the run is applied, whatever the previous run accumulated: no
\* score is left while the run has no match, and after its first match the
\* only scores are the two match scores.
C7_ResetZeroesScores ==
  runs >= 1 =>
    /\ matchLog = <<>> => \A k \in 1..Len(agents) : agents[k].score = 0
    /\ Len(matchLog) = 1 =>
         \A k \in 1..Len(agents) :
           agents[k].score =
             IF k - 1 = matchLog[1][1] THEN matchLog[1][3]
             ELSE IF k - 1 = matchLog[1][2] THEN matchLog[1][4]
             ELSE 0

\* A second run has been started after a run of LAST_TICK + 1 matches that
\* left scores, and has not played yet.
C7_Witness ==
  /\ runs = 2
  /\ matchLog = <<>>
  /\ currentTick[1] > LAST_TICK
  /\ lastMatch.scoreA + lastMatch.scoreB > 0
  /\ \A k \in 1..Len(agents) : agents[k].score = 0

IsTitForTat(agent) == agent.isClassic /\ agent.fn \in {"TIT_FOR_TAT", "TFT"}

\* The move pairs of a side that follows Tit for Tat.
TitForTatRule(pairs) ==
  \A k \in 1..Len(pairs) :
    pairs[k][1] = IF k = 1 THEN "C" ELSE pairs[k - 1][2]

\* C8: whatever the opponent plays, Tit for Tat plays C on round 0 and on
\* every later round the opponent's move of the round before.
C8_TitForTat ==
  Played =>
    /\ IsTitForTat(MatchA) => TitForTatRule(PairsA)
    /\ IsTitForTat(MatchB) => TitForTatRule(PairsB)

\* Tit for Tat has retaliated against a defection and has returned to C later.
C8_Witness ==
  /\ Played
  /\ IsTitForTat(MatchA)
  /\ \E j \in 1..Len(PairsA), k \in 1..Len(PairsA) :
       /\ j < k
       /\ PairsA[j][1] = "D"
       /\ PairsA[k][1] = "C"
       /\ PairsA[k][2] = "D"

IsGrim(agent) == agent.isClassic /\ agent.fn = "GRIM"

\* The move pairs of a side that follows Grim Trigger.
GrimRule(pairs) ==
  \A k \in 1..Len(pairs) :
    pairs[k][1] = IF \E j \in 1..(k - 1) : pairs[j][2] = "D" THEN "D" ELSE "C"

\* C9: within a match Grim Trigger plays C on every round before the
\* opponent's first D and D on every round after it, whatever the opponent
\* plays afterwards.
C9_GrimTrigger ==
  Played =>
    /\ IsGrim(MatchA) => GrimRule(PairsA)
    /\ IsGrim(MatchB) => GrimRule(PairsB)

\* Grim Trigger cooperated first, was defected against, and the opponent
\* cooperated again on a later round that is not the last.
C9_Witness ==
  /\ Played
  /\ IsGrim(MatchA)
  /\ PairsA[1] = <<"C", "C">>
  /\ \E j \in 1..Len(PairsA), k \in 1..(Len(PairsA) - 1) :
       /\ j < k
       /\ PairsA[j][2] = "D"
       /\ PairsA[k][2] = "C"
       /\ PairsA[k + 1][1] = "D"

IsPavlov(agent) == agent.isClassic /\ agent.fn = "PAVLOV"

\* The move pairs of a side that follows Pavlov: stay after R or T, shift
\* after P or S.
PavlovRule(pairs) ==
  \A k \in 1..Len(pairs) :
    pairs[k][1] =
      IF k = 1 THEN "C"
      ELSE IF MatrixPayoff(pairs[k - 1][1], pairs[k - 1][2]) \in {3, 5}
           THEN pairs[k - 1][1]
           ELSE IF pairs[k - 1][1] = "C" THEN "D" ELSE "C"

\* C10: Pavlov plays C on round 0, repeats its move after a payoff R or T and
\* switches after P or S; Pavlov against Pavlov plays (C,C) on all 20 rounds
\* and scores (60,60).
C10_Pavlov ==
  Played =>
    /\ IsPavlov(MatchA) => PavlovRule(PairsA)
    /\ IsPavlov(MatchB) => PavlovRule(PairsB)
    /\ IsPavlov(MatchA) /\ IsPavlov(MatchB) =>
         /\ Len(PairsA) = 20
         /\ \A k \in 1..Len(PairsA) : PairsA[k] = <<"C", "C">>
         /\ lastMatch.scoreA = 60
         /\ lastMatch.scoreB = 60

\* Pavlov has met all four outcomes in one match.
C10_Witness ==
  /\ Played
  /\ IsPavlov(MatchA)
  /\ {PairsA[k] : k \in 1..(Len(PairsA) - 1)} = {"C", "D"} \X {"C", "D"}

\* Pavlov has played Pavlov.
PavlovSelfPlay == Played /\ IsPavlov(MatchA) /\ IsPavlov(MatchB)

\* ---------------------------------------------------------------- C11
\* The adaptive agents of the roster.
AdaptiveAgents == {k \in DOMAIN agents : ~agents[k].isClassic}

InPolicyRange(p) == 100 <= p /\ p <= 9900

\* C11: in every state (at creation and after any number of post-match
\* updates) both p_afterC and p_afterD of every Adaptive-N agent lie in
\* [0.01, 0.99].
C11_PolicyRange ==
  variant = "hover" =>
    \A k \in AdaptiveAgents :
      /\ InPolicyRange(agents[k].policy.p_afterC)
      /\ InPolicyRange(agents[k].policy.p_afterD)
      /\ \A pos \in 0..(Len(rng.tape) - 1) :
           LET made == createAdaptiveAgent(k - NumClassicHover, rng.tape, pos)
           IN InPolicyRange(made.policy.p_afterC) /\ InPolicyRange(made.policy.p_afterD)

\* An adaptive agent adapted after a match that gave it no nudge (equal
\* averages) and the reclamp of the jitter acted at the lower bound.
C11_Witness ==
  /\ variant = "hover"
  /\ matchLog # <<>>
  /\ ~MatchA.isClassic
  /\ nudgedPolicy([p_afterC |-> 100, p_afterD |-> 100], lastMatch.historyA)
       = [p_afterC |-> 100, p_afterD |-> 100]
  /\ MatchA.policy.p_afterD = 100
  /\ MatchA.policy.p_afterC = 9900
\* ---------------------------------------------------------------- C12
\* T / (1 - gamma) = 5 / 0.1, in units of 1/QScale.
QBound == (PD_T * QScale * 10) \div (10 - 9)

\* C12: after any number of Q-updates every stored Q value lies in [0, 50]
\* (a number: the table holds no NaN and no infinity).
C12_QRange ==
  IsFishbowl =>
    \A k \in DOMAIN learned.qTable :
      /\ learned.qTable[k] \in Int
      /\ 0 <= learned.qTable[k]
      /\ learned.qTable[k] <= QBound

\* After a whole run the Q-Learner holds a value above 5 * T: the estimate
\* bootstrapped over many updates.
C12_Witness ==
  /\ IsFishbowl
  /\ \E r \in DOMAIN currentTick : currentTick[r] > LAST_TICK
  /\ \E k \in DOMAIN learned.qTable : learned.qTable[k] > 5 * PD_T * QScale
\* ---------------------------------------------------------------- C13
\* Math.random calls of one decideMove of the agent.
DrawsOf(agent) == IF ~agent.isClassic \/ agent.fn = "RANDOM" THEN 1 ELSE 0

\* The move sampled from the policy with the probability keyed by the move
\* key, on the Math.random value r.
SampledMove(policy, key, r) ==
  IF r < (IF key = "C" THEN policy.p_afterC ELSE policy.p_afterD) THEN "C" ELSE "D"

\* The Math.random value of the decision of side A (side = 0) or B (side = 1)
\* in round k of the match that followed initializeAgents.
DecisionDraw(k, side) ==
  Draw(rng.tape,
       posAfterInitialize(rng.tape)
         + (k - 1) * (DrawsOf(MatchA) + DrawsOf(MatchB)) + side * DrawsOf(MatchA))

\* A match of the hover variant was played and its outcome is not applied
\* yet: the agents hold the policies they played with.
MatchPlayedNotApplied == variant = "hover" /\ Played /\ matchLog = <<>>

\* The side with move pairs pairs sampled every move with the probability
\* keyed by column col of the previous round (1: own move, 2: opponent's
\* move), p_afterC in the first round.
KeyedBy(agent, pairs, side, col) ==
  \A k \in 1..Len(pairs) :
    pairs[k][1] = SampledMove(agent.policy,
                              IF k = 1 THEN "C" ELSE pairs[k - 1][col],
                              DecisionDraw(k, side))

\* C13: on every round after the first an Adaptive agent samples its move
\* with the probability keyed by the opponent's move of the previous round
\* (p_afterC after C, p_afterD after D); the first round uses p_afterC.
C13_KeyedByOpponent ==
  MatchPlayedNotApplied =>
    /\ ~MatchA.isClassic => KeyedBy(MatchA, PairsA, 0, 2)
    /\ ~MatchB.isClassic => KeyedBy(MatchB, PairsB, 1, 2)

\* What adaptiveDecision computes on the history decideMove passes to it:
\* the probability is keyed by the agent's own move of the previous round.
C13_KeyedByOwnMove ==
  MatchPlayedNotApplied =>
    /\ ~MatchA.isClassic => KeyedBy(MatchA, PairsA, 0, 1)
    /\ ~MatchB.isClassic => KeyedBy(MatchB, PairsB, 1, 1)
\* ---------------------------------------------------------------- C14
\* Statistics of the Meta-Strategist: every strategy without rounds or with 10
\* rounds and a total of 0, 10 or 30 points, any current strategy.
MetaTables ==
  {m \in [counts : [{"C", "D", "TFT", "FREQ"} -> {0, 10}],
          performance : [{"C", "D", "TFT", "FREQ"} -> {0, 10, 30}],
          currentStrategy : {"C", "D", "TFT", "FREQ"}] :
     \A s \in {"C", "D", "TFT", "FREQ"} : m.counts[s] = 0 => m.performance[s] = 0}

\* The average of strategy s exceeds the average of strategy t (the average
\* of a strategy without rounds stands for 0).
AvgExceeds(m, s, t) ==
  m.counts[s] > 0 /\
    IF m.counts[t] > 0
    THEN m.performance[s] * m.counts[t] > m.performance[t] * m.counts[s]
    ELSE m.performance[s] > 0

\* The strategies a re-evaluation may select: the current one if no counted
\* strategy has a strictly better average, else those of the best average.
StrictlyBest(m) ==
  LET better == {s \in DOMAIN m.counts : AvgExceeds(m, s, m.currentStrategy)}
  IN IF better = {} THEN {m.currentStrategy}
     ELSE {s \in better : \A t \in better : ~AvgExceeds(m, t, s)}

\* The histories a Meta-Strategist of the latest match saw.
MetaHistories ==
  (IF ~MatchA.isClassic /\ MatchA.fn = "META_STRATEGY" THEN {lastMatch.historyA} ELSE {})
    \cup
  (IF ~MatchB.isClassic /\ MatchB.fn = "META_STRATEGY" THEN {lastMatch.historyB} ELSE {})

\* C14: deciding round 10 of a 20-round match (the history holds 10 rounds)
\* the Meta-Strategist re-evaluates: its current strategy becomes the one of
\* strictly best average among those with a non-zero count, the current one
\* on ties.
C14_ReevaluatesAtRound10 ==
  IsFishbowl /\ Played =>
    \A h \in MetaHistories : \A m \in MetaTables :
      META_STRATEGY_fn(SubSeq(h, 1, 10), m).currentStrategy \in StrictlyBest(m)

\* What fn does in a match: on every round of the 20 the current strategy is
\* the one it had before the call.
C14_NeverReevaluates ==
  IsFishbowl /\ Played =>
    \A h \in MetaHistories : \A m \in MetaTables : \A k \in 0..(Len(h) - 1) :
      META_STRATEGY_fn(SubSeq(h, 1, k), m).currentStrategy = m.currentStrategy

\* Only histories of 20, 30, ... rounds are re-evaluated, as the claim says.
C14_ReevaluatesFrom20 ==
  IsFishbowl /\ Played =>
    \A h \in MetaHistories : \A m \in MetaTables :
      Len(h) = ITERATED_LENGTH =>
        META_STRATEGY_fn(h, m).currentStrategy \in StrictlyBest(m)
\* ---------------------------------------------------------------- C15
\* The histories a Q-Learner of the latest match saw.
QHistories ==
  (IF ~MatchA.isClassic /\ MatchA.fn = "Q_LEARNER" THEN {lastMatch.historyA} ELSE {})
    \cup
  (IF ~MatchB.isClassic /\ MatchB.fn = "Q_LEARNER" THEN {lastMatch.historyB} ELSE {})

\* The opponent's moves of rounds from..k of history h, concatenated.
RECURSIVE OpponentMoves(_, _, _)
OpponentMoves(h, from, k) ==
  IF from > k THEN "" ELSE h[from].opponent \o OpponentMoves(h, from + 1, k)

\* The keys of a Q-table whose states are "start" or three moves.
ThreeMoveKeys ==
  {st \o "_" \o x : st \in {"start"} \cup {a \o b \o c : a, b, c \in {"C", "D"}},
                     x \in {"C", "D"}}

\* The keys of a Q-table whose states are one or two moves.
ShortKeys ==
  {st \o "_" \o x : st \in {"C", "D"} \cup {a \o b : a, b \in {"C", "D"}},
                     x \in {"C", "D"}}

\* C15: the Q-Learner's state key is "start" whenever fewer than 3 rounds of
\* the match have been played, otherwise the concatenation of the opponent's
\* last 3 moves (so every key of the Q-table has the state "start" or a state
\* of three moves).
C15_StartBelowThree ==
  IsFishbowl /\ Played =>
    /\ \A h \in QHistories : \A k \in 0..Len(h) :
         getState(SubSeq(h, 1, k)) =
           IF k < 3 THEN "start" ELSE OpponentMoves(h, k - 2, k)
    /\ DOMAIN learned.qTable \subseteq ThreeMoveKeys

\* C15 amended: the state key is "start" only when no round of the match has
\* been played; after k >= 1 rounds it is the concatenation of the opponent's
\* last min(3, k) moves, and these are the states the updates of the match
\* stored in the Q-table.
C15_StartOnlyWhenEmpty ==
  IsFishbowl /\ Played =>
    \A h \in QHistories :
      /\ \A k \in 0..Len(h) :
           getState(SubSeq(h, 1, k)) =
             IF k = 0 THEN "start"
             ELSE OpponentMoves(h, IF k < 3 THEN 1 ELSE k - 2, k)
      /\ \A k \in 1..Len(h) :
           (IF k = 1 THEN "start"
            ELSE OpponentMoves(h, IF k < 4 THEN 1 ELSE k - 3, k - 1))
             \o "_" \o h[k].self \in DOMAIN learned.qTable

\* A Q-Learner played a match and its table holds a state of one move or of
\* two moves.
C15_Witness ==
  /\ IsFishbowl
  /\ Played
  /\ QHistories # {}
  /\ DOMAIN learned.qTable \cap ShortKeys # {}
\* ---------------------------------------------------------------- C16
\* The adaptive sides of the latest match: the agent and its match history.
AdaptiveSides ==
  (IF ~MatchA.isClassic THEN {<<MatchA, lastMatch.historyA>>} ELSE {})
    \cup (IF ~MatchB.isClassic THEN {<<MatchB, lastMatch.historyB>>} ELSE {})

\* The payoffs of the rounds of h in which the side played move, summed, and
\* the number of these rounds.
RECURSIVE RewardOf(_, _)
RewardOf(h, move) ==
  IF h = <<>> THEN 0
  ELSE (IF h[1].me = move THEN payoffFor(h[1].me, h[1].opp) ELSE 0)
         + RewardOf(Tail(h), move)

CountOf(h, move) == Cardinality({k \in 1..Len(h) : h[k].me = move})

\* avgC > avgD on history h (an average over no round is 0).
AvgCAbove(h) ==
  RewardOf(h, "C") * Max(1, CountOf(h, "D")) > RewardOf(h, "D") * Max(1, CountOf(h, "C"))

AvgDAbove(h) ==
  RewardOf(h, "D") * Max(1, CountOf(h, "C")) > RewardOf(h, "C") * Max(1, CountOf(h, "D"))

\* C16: in adaptAgentAfterMatch, after the nudge and before the jitter, both
\* probabilities lie in [0.01, 0.98], for every match history and every prior
\* policy in [0.01, 0.99] (equal averages, where no nudge is applied,
\* included).
C16_NudgedBelowCap ==
  MatchPlayedNotApplied =>
    \A side \in AdaptiveSides :
      LET n == nudgedPolicy(side[1].policy, side[2])
      IN /\ 100 <= n.p_afterC /\ n.p_afterC <= 9800
         /\ 100 <= n.p_afterD /\ n.p_afterD <= 9800

\* C16 amended: after the nudge and before the jitter both probabilities lie
\* in [0.01, 0.99], for every match history and every prior policy in
\* [0.01, 0.99]: at most 0.98 when the nudge raised them (avgC > avgD), at
\* least 0.02 when it lowered them (avgD > avgC), and the prior values at
\* equal averages.
C16_NudgedRange ==
  MatchPlayedNotApplied =>
    \A side \in AdaptiveSides :
      LET n == nudgedPolicy(side[1].policy, side[2])
      IN /\ InPolicyRange(n.p_afterC) /\ InPolicyRange(n.p_afterD)
         /\ AvgCAbove(side[2]) => n.p_afterC <= 9800 /\ n.p_afterD <= 9800
         /\ AvgDAbove(side[2]) => n.p_afterC >= 200 /\ n.p_afterD >= 200
         /\ ~AvgCAbove(side[2]) /\ ~AvgDAbove(side[2]) => n = side[1].policy

\* An adaptive agent with a prior above 0.98 played a match of equal averages:
\* the value before the jitter is the prior, above 0.98.
C16_Witness ==
  /\ MatchPlayedNotApplied
  /\ \E side \in AdaptiveSides :
       /\ ~AvgCAbove(side[2]) /\ ~AvgDAbove(side[2])
       /\ nudgedPolicy(side[1].policy, side[2]).p_afterC = 9899
\* ---------------------------------------------------------------- C17
\* Math.random values on which the Q-Learner exploits (not below epsilon).
ExploitDraws == {r \in MatchRandValues \cup {RandScale \div 10} : r * 10 >= RandScale}

\* The histories the Q-Learner's fn was called with in the latest match.
QDecisions == {SubSeq(h, 1, k) : h \in QHistories, k \in 0..(ITERATED_LENGTH - 1)}

\* The stored Q value of action x in the state of history h (0 if absent).
QOf(h, x) == QGet(learned.qTable, getState(h) \o "_" \o x)

\* The Q-Learner is side A of the first match after the page was loaded (its
\* table was empty) and its first Math.random value did not explore.
FirstDecisionExploits ==
  /\ ~MatchA.isClassic /\ MatchA.fn = "Q_LEARNER"
  /\ Draw(rng.tape, 0) * 10 >= RandScale

\* C17: when the Q-Learner exploits (does not explore) it plays the action
\* with the strictly higher Q value in the current state, and DEFECT on a
\* tie (both entries absent included, as in the first round with an empty
\* table).
C17_ExploitRule ==
  IsFishbowl /\ Played =>
    /\ \A h \in QDecisions : \A r \in ExploitDraws :
         LET move == Q_LEARNER_fn(h, learned.qTable, <<r>>, 0).move
         IN /\ QOf(h, "C") > QOf(h, "D") => move = "C"
            /\ QOf(h, "D") > QOf(h, "C") => move = "D"
            /\ QOf(h, "C") = QOf(h, "D") => move = "D"
    /\ FirstDecisionExploits => lastMatch.historyA[1].self = "D"

\* The table of a Q-Learner after a match has a state where C is strictly
\* better, one where D is and one tied with an entry stored; it exploited in
\* the first round, on the empty table.
C17_Witness ==
  /\ IsFishbowl
  /\ Played
  /\ \E h \in QDecisions : QOf(h, "C") > QOf(h, "D")
  /\ \E h \in QDecisions : QOf(h, "D") > QOf(h, "C")
  /\ \E h \in QDecisions :
       /\ (getState(h) \o "_C") \in DOMAIN learned.qTable
       /\ QOf(h, "C") = QOf(h, "D")
  /\ FirstDecisionExploits
\* ---------------------------------------------------------------- C18
\* The move pairs of the sides of the latest match the strategy id played.
PairsPlayedBy(id) ==
  (IF ~MatchA.isClassic /\ MatchA.fn = id THEN {PairsA} ELSE {})
    \cup (IF ~MatchB.isClassic /\ MatchB.fn = id THEN {PairsB} ELSE {})

\* The rounds among the first n of the move pairs in which the opponent
\* cooperated.
OpponentCoop(pairs, n) == Cardinality({k \in 1..n : pairs[k][2] = "C"})

\* C18: the FrequencyAnalyzer plays C on rounds 0..4; on every later round it
\* plays C if and only if the opponent's share of C over all previous rounds
\* strictly exceeds 0.6 (D at exactly 60%).
C18_FrequencyRule ==
  IsFishbowl /\ Played =>
    \A pairs \in PairsPlayedBy("FREQ_ANALYSIS") : \A r \in 0..(Len(pairs) - 1) :
      pairs[r + 1][1] =
        IF r <= 4 THEN "C"
        ELSE IF 5 * OpponentCoop(pairs, r) > 3 * r THEN "C" ELSE "D"

\* The FrequencyAnalyzer played a match in which, after round 4, it decided
\* once at a share of exactly 60% (D), once above (C) and once below (D).
C18_Witness ==
  /\ IsFishbowl
  /\ Played
  /\ \E pairs \in PairsPlayedBy("FREQ_ANALYSIS") :
       /\ \E r \in 5..(Len(pairs) - 1) :
            5 * OpponentCoop(pairs, r) = 3 * r /\ pairs[r + 1][1] = "D"
       /\ \E r \in 5..(Len(pairs) - 1) :
            5 * OpponentCoop(pairs, r) > 3 * r /\ pairs[r + 1][1] = "C"
       /\ \E r \in 5..(Len(pairs) - 1) :
            5 * OpponentCoop(pairs, r) < 3 * r /\ pairs[r + 1][1] = "D"
\* ---------------------------------------------------------------- C19
\* The opponent's moves of the pl rounds up to round t of the move pairs.
Window(pairs, t, pl) == [i \in 1..pl |-> pairs[t - pl + i][2]]

\* The rounds t <= n of the match after which updatePatterns counted the
\* follow-up x of the window the opponent's last pl moves form after n rounds:
\* the window ended at round t - 1 and the opponent played x in round t.
FollowUps(pairs, n, pl, x) ==
  {t \in (pl + 1)..n :
     Window(pairs, t - 1, pl) = Window(pairs, n, pl) /\ pairs[t][2] = x}

\* The window lengths whose most recent window is a key of the pattern table
\* after n rounds of the first match of the Pattern Detective.
KnownLengths(pairs, n) ==
  {pl \in 2..4 : pl <= n /\ FollowUps(pairs, n, pl, "C") \cup FollowUps(pairs, n, pl, "D") # {}}

\* The move the claim gives for round n (n rounds played before).
PatternRule(pairs, n) ==
  IF n <= 3 THEN "C"
  ELSE IF KnownLengths(pairs, n) = {} THEN "C"
  ELSE LET pl == CHOOSE p \in KnownLengths(pairs, n) :
                   \A q \in KnownLengths(pairs, n) : p <= q
       IN IF Cardinality(FollowUps(pairs, n, pl, "C")) >
               Cardinality(FollowUps(pairs, n, pl, "D"))
          THEN "C" ELSE "D"

\* C19: the PatternDetector plays C on rounds 0..3; later it checks the
\* window lengths 2, 3, 4 in order and, for the first length whose most
\* recent opponent window is a key of the pattern table, plays C if the
\* recorded C follow-ups strictly outnumber the D follow-ups and D otherwise;
\* if no window is in the table it plays C.
C19_PatternRule ==
  IsFishbowl /\ Played =>
    \A pairs \in PairsPlayedBy("PATTERN_DETECTOR") : \A n \in 0..(Len(pairs) - 1) :
      pairs[n + 1][1] = PatternRule(pairs, n)

\* The Pattern Detective played a match in which, after round 3, a known
\* window decided C, one decided D on equal counts, one decided D on fewer C
\* follow-ups, and once no window was known.
C19_Witness ==
  /\ IsFishbowl
  /\ Played
  /\ \E pairs \in PairsPlayedBy("PATTERN_DETECTOR") :
       /\ \E n \in 4..(Len(pairs) - 1) :
            KnownLengths(pairs, n) # {} /\ pairs[n + 1][1] = "C"
       /\ \E n \in 4..(Len(pairs) - 1) :
            /\ 2 \in KnownLengths(pairs, n)
            /\ Cardinality(FollowUps(pairs, n, 2, "C")) =
                 Cardinality(FollowUps(pairs, n, 2, "D"))
            /\ pairs[n + 1][1] = "D"
       /\ \E n \in 4..(Len(pairs) - 1) :
            /\ 2 \in KnownLengths(pairs, n)
            /\ Cardinality(FollowUps(pairs, n, 2, "C")) <
                 Cardinality(FollowUps(pairs, n, 2, "D"))
       /\ \E n \in 4..(Len(pairs) - 1) :
            KnownLengths(pairs, n) = {} /\ pairs[n + 1][1] = "C"
\* ---------------------------------------------------------------- C20
\* The policies of the Adaptive-N agents (hover variant).
Policies ==
  IF variant = "hover" THEN [k \in AdaptiveAgents |-> agents[k].policy] ELSE <<>>

\* The roster apart from what startSimulation resets.
KeptFields ==
  [k \in DOMAIN agents |->
     IF IsFishbowl
     THEN [agents[k] EXCEPT !.score = 0, !.history = <<>>, !.myHistory = 0]
     ELSE [agents[k] EXCEPT !.score = 0]]

\* C20: every match starts with empty per-match histories (its histories, and
\* the history an agent keeps of its latest match, hold ITERATED_LENGTH
\* records however many matches the agents played before), and the learned parameters (policy
\* probabilities, Q-table, pattern table, sub-strategy statistics, current
\* sub-strategy) change only in steps that play a match: starting a new run
\* leaves them unchanged and zeroes scores and histories only.
C20_LearnedFrame ==
  [][/\ runs' # runs =>
          /\ learned' = learned
          /\ Policies' = Policies
          /\ KeptFields' = KeptFields
          /\ \A k \in DOMAIN agents : agents'[k].score = 0
          /\ IsFishbowl =>
               \A k \in DOMAIN agents :
                 agents'[k].history = <<>> /\ agents'[k].myHistory = 0
     /\ learned' # learned \/ Policies' # Policies => Len(matchLog') > Len(matchLog)
     /\ Len(matchLog') > Len(matchLog) =>
          /\ Len(lastMatch'.historyA) = ITERATED_LENGTH
          /\ Len(lastMatch'.historyB) = ITERATED_LENGTH
          /\ IsFishbowl =>
               \A k \in DOMAIN agents :
                 Len(agents'[k].history) \in {0, ITERATED_LENGTH}]_vars

\* A second run has been started after a whole run that taught the learners
\* (the Q-table is filled, or an Adaptive-N policy left the values of its
\* creation) and their agents played again.
C20_Witness ==
  /\ runs = 2
  /\ currentTick[1] > LAST_TICK
  /\ matchLog # <<>>
  /\ IF IsFishbowl
     THEN \E key \in DOMAIN learned.qTable : learned.qTable[key] > 0
     ELSE Policies # [k \in AdaptiveAgents |-> initializeAgents(rng.tape)[k].policy]

\* Every match of the scheduler, the first or a later one of its agents,
\* shows the first-round behaviour of an empty history: Tit for Tat, the
\* Meta-Strategist (playing TFT) and the Pattern Detective open with C.
C20_FreshFirstMoves ==
  IsFishbowl /\ Played =>
    /\ MatchA.fn \in {"TIT_FOR_TAT", "PATTERN_DETECTOR", "META_STRATEGY"} =>
         PairsA[1][1] = "C"
    /\ MatchB.fn \in {"TIT_FOR_TAT", "PATTERN_DETECTOR", "META_STRATEGY"} =>
         PairsB[1][1] = "C"

\* The second match of a run was played by Tit for Tat after a match whose
\* last opponent move was D.
C20_SecondMatch ==
  /\ IsFishbowl
  /\ Len(matchLog) = 2
  /\ MatchA.fn = "TIT_FOR_TAT"
  /\ matchLog[1][1] = lastMatch.idxA
  /\ matchLog[1][4] > matchLog[1][3]
\* ---------------------------------------------------------------- C21
\* Rosters of fewer than 2 agents: the empty one (the state useState([])
\* creates) and each agent of the roster alone.
ShortRosters == {<<>>} \cup {<<agents[k]>> : k \in DOMAIN agents}

\* The simulation state after one scheduler tick of the fishbowl's current
\* run on the roster short.
TickOn(short) ==
  runOneMatch([SimState EXCEPT !.agents = short], runs, rng.tape, strictDev,
              variant = "raf")

\* C21: a scheduler tick executed while the roster holds fewer than 2 agents
\* is a no-op: it terminates without selecting a pair, plays no match, leaves
\* the roster unchanged and does not advance the tick counter.
C21_ShortRosterNoOp ==
  running /\ runs >= 1 =>
    \A short \in ShortRosters :
      IF IsFishbowl
      THEN /\ TickOn(short).ok
           /\ TickOn(short).agents = short
           /\ TickOn(short).pos = rng.pos
           /\ TickOn(short).matchLog = matchLog
           /\ TickOn(short).learned = learned
           /\ TickOn(short).currentTick = currentTick
      ELSE pickHover(Len(short), rng.tape, rng.pos).ok

\* What the fishbowl tick does on a short roster: nothing to the roster, the
\* random stream, the learners and the log, and the run's counter advances.
C21_ShortRosterCounts ==
  running /\ runs >= 1 /\ IsFishbowl =>
    \A short \in ShortRosters :
      /\ TickOn(short).ok
      /\ TickOn(short).agents = short
      /\ TickOn(short).pos = rng.pos
      /\ TickOn(short).matchLog = matchLog
      /\ TickOn(short).learned = learned
      /\ TickOn(short).tick = currentTick[runs]
      /\ TickOn(short).currentTick[runs] = currentTick[runs] + 1

\* The selection of the hover tick ends on no roster of fewer than 2 agents.
C21_ShortRosterHangs ==
  running /\ runs >= 1 /\ variant = "hover" =>
    \A short \in ShortRosters : ~pickHover(Len(short), rng.tape, rng.pos).ok
\* ---------------------------------------------------------------- C22
\* C22: every scheduler tick increments the tick counter by one: within a
\* run the counter strictly increases from tick to tick, and after n
\* completed matches it equals n.
C22_TickCountsMatches ==
  runs >= 1 => tick = Len(matchLog)

\* C22 as a step property: a step that plays matches raises the tick counter
\* by their number.
C22_TickIncreases ==
  [][Len(matchLog') > Len(matchLog) =>
       tick' = tick + (Len(matchLog') - Len(matchLog))]_vars

\* What the variants do: the hover tick counts the matches; the fishbowl
\* tick shows the value of currentTick before its increment, n - 1 after n
\* matches (0 after the first match, as after the reset).
C22_TickLagsByOne ==
  runs = 1 =>
    tick = IF variant = "hover" \/ matchLog = <<>> THEN Len(matchLog)
           ELSE Len(matchLog) - 1
\* ---------------------------------------------------------------- C23
\* The interaction event of the latest match: the names of its agents, the
\* moves and the payoffs of its final round.
FinalRoundEvent ==
  [A |-> MatchA.name, B |-> MatchB.name,
   aMove |-> lastMatch.historyA[ITERATED_LENGTH].self,
   bMove |-> lastMatch.historyB[ITERATED_LENGTH].self,
   pA |-> MatrixPayoff(lastMatch.historyA[ITERATED_LENGTH].self,
                       lastMatch.historyB[ITERATED_LENGTH].self),
   pB |-> MatrixPayoff(lastMatch.historyB[ITERATED_LENGTH].self,
                       lastMatch.historyA[ITERATED_LENGTH].self)]

\* The event shown is the one of the latest match.
C23_EventContent ==
  variant = "raf" /\ Played =>
    /\ Len(lastMatch.historyA) = ITERATED_LENGTH
    /\ Len(lastMatch.historyB) = ITERATED_LENGTH
    /\ lastInteraction = FinalRoundEvent

\* C23: each completed match emits exactly one interaction event (the
\* updater, which emits it, ran once for the match) whose names are the two
\* selected agents, whose moves aMove / bMove are the two sides' moves of the
\* final (20th) round of that match and whose payoffs pA / pB are the payoffs
\* of that round.
C23_OneInteractionEvent ==
  variant = "raf" /\ Played =>
    /\ C23_EventContent
    /\ lastMatch.invocations = 1

\* The same statement for builds in which React calls the updater once.
C23_SingleInvocation == ~strictDev => C23_OneInteractionEvent
\* ---------------------------------------------------------------- C24
\* C24: in every reachable state the Meta-Strategist's currentStrategy is
\* "TFT": the re-evaluation is never taken in 20-round matches, only the
\* statistics of the TFT sub-strategy ever change, and on every round the
\* Meta-Strategist plays the move Tit for Tat plays on the same history.
C24_MetaIsTitForTat ==
  IsFishbowl =>
    /\ learned.meta.currentStrategy = "TFT"
    /\ \A st \in {"C", "D", "FREQ"} :
         learned.meta.counts[st] = 0 /\ learned.meta.performance[st] = 0
    /\ Played =>
         \A pairs \in PairsPlayedBy("META_STRATEGY") : TitForTatRule(pairs)

\* The Meta-Strategist played in two matches of a run, the TFT statistics
\* hold their rounds, and in the latest one it answered a defection.
C24_Witness ==
  /\ IsFishbowl
  /\ Played
  /\ ~strictDev
  /\ LogMatches(matchLog, AGENT_COUNT - 1) = 2
  /\ learned.meta.counts["TFT"] = 2 * ITERATED_LENGTH
  /\ learned.meta.performance["TFT"] > 0
  /\ \E pairs \in PairsPlayedBy("META_STRATEGY") :
       \E k \in 2..Len(pairs) : pairs[k][1] = "D"
\* ---------------------------------------------------------------- C25
Moves == {"C", "D"}

\* The keys of two moves, and those of two to four moves.
TwoMoveKeys == {a \o b : a, b \in Moves}

PatternKeys ==
  TwoMoveKeys \cup {a \o b \o c : a, b, c \in Moves}
              \cup {a \o b \o c \o d : a, b, c, d \in Moves}

\* A history whose last four opponent moves are w.
HistoryEnding(w) ==
  [i \in 1..4 |-> [self |-> "C", opponent |-> w[i], payoff |-> MatrixPayoff("C", w[i])]]

\* C25: in every reachable state of the Pattern Detective's table each key of
\* 3 or 4 moves has its suffix of 2 moves as a key too, and every key has at
\* least one recorded follow-up; hence whenever a window of any length is in
\* the table the decision is taken at window length 2 (lengths 3 and 4 never
\* decide).
C25_TwoMoveSuffix ==
  IsFishbowl =>
    /\ DOMAIN learned.patterns \subseteq PatternKeys
    /\ \A a \in Moves, key \in TwoMoveKeys :
         /\ (a \o key) \in DOMAIN learned.patterns =>
              key \in DOMAIN learned.patterns
         /\ \A b \in Moves :
              (a \o b \o key) \in DOMAIN learned.patterns =>
                key \in DOMAIN learned.patterns
    /\ \A key \in DOMAIN learned.patterns :
         learned.patterns[key].C + learned.patterns[key].D >= 1
    /\ \A w \in [1..4 -> Moves] :
         PatternHits(HistoryEnding(w), learned.patterns) # {} =>
           2 \in PatternHits(HistoryEnding(w), learned.patterns)

\* The Pattern Detective played a match that left keys of 2, 3 and 4 moves
\* in its table; some window is known at every length and some at length 2
\* only.
C25_Witness ==
  /\ IsFishbowl
  /\ Played
  /\ PairsPlayedBy("PATTERN_DETECTOR") # {}
  /\ \E w \in [1..4 -> Moves] :
       PatternHits(HistoryEnding(w), learned.patterns) = {2, 3, 4}
  /\ \E w \in [1..4 -> Moves] :
       PatternHits(HistoryEnding(w), learned.patterns) = {2}
\* ---------------------------------------------------------------- C26
\* The matches a whole run plays.
RUN_MATCHES == LAST_TICK + 1

\* C26: a run started by startSimulation (timer and animation-frame
\* variants) stops by itself after exactly 501 matches: while it is running
\* it has played at most 501 matches, and once running is false (a new run
\* can be started) it has played exactly 501 and its driver plays no more.
C26_RunPlays501 ==
  IsFishbowl /\ runs >= 1 =>
    /\ Len(matchLog) <= RUN_MATCHES
    /\ ~running => Len(matchLog) = RUN_MATCHES

\* The same statement for the timer variant and for the first run of the
\* animation-frame variant.
C26_UndisturbedRun ==
  variant = "timer" \/ runs = 1 => C26_RunPlays501

\* After the stop no match is played until the next start.
C26_NoMatchAfterStop ==
  [][IsFishbowl /\ ~running /\ runs' = runs => matchLog' = matchLog]_vars
\* ---------------------------------------------------------------- C27
\* The simulation state after the animation frame at time ts that follows
\* the simulation state st (the callbacks requested in st are pending).
FrameAfter(st, ts) ==
  frame([st EXCEPT !.pendingNow = st.pendingNow \cup st.pendingNext,
                   !.pendingNext = {}],
        1, ts, rng.tape, strictDev)

\* The simulation state startSimulation() leaves when it is invoked in the
\* current state as the start of run runs + 1.
Started ==
  [SimState EXCEPT
     !.running = TRUE, !.runningRef = TRUE, !.tick = 0, !.matchLog = <<>>,
     !.agents = [k \in 1..Len(agents) |-> resetAgent(agents[k], TRUE)],
     !.currentTick = Append(currentTick, 0),
     !.rafIdRef = runs + 1, !.pendingNow = scheduled \cup {runs + 1}]

\* Started is the state the action startSimulation produces.
C27_StartedIsStart ==
  [][variant = "raf" /\ runs' # runs =>
       SimState' = [Started EXCEPT !.pendingNext = {}]]_vars

\* The matches of the run in the log of simulation state st.
MatchesIn(st) == Len(st.matchLog)

\* After startSimulation(): the first frame of the run, one frame period
\* later, plays no match, and after the second and third frame the run has
\* played at most (time since the first frame) / 300 ms matches.
ElapsedFromFirstFrame ==
  LET first == FrameAfter(Started, now + framePeriod)
      second == FrameAfter(first, now + 2 * framePeriod)
      third == FrameAfter(second, now + 3 * framePeriod)
  IN /\ MatchesIn(first) = 0
     /\ MatchesIn(second) <= framePeriod \div CADENCE_MS
     /\ MatchesIn(third) <= (2 * framePeriod) \div CADENCE_MS

\* C27: in the animation-frame scheduler the elapsed time of a run is
\* measured from that run's own first frame: the first frame of every run
\* (the first run and any run restarted after a previous run stopped) plays
\* no match, and at every frame the number of matches played so far in the
\* run is at most (time since the run's first frame) / 300 ms.
C27_ElapsedFromFirstFrame ==
  variant = "raf" /\ ~running => ElapsedFromFirstFrame

\* The same statement for the first run after the page was loaded.
C27_FirstRun ==
  variant = "raf" /\ ~running /\ runs = 0 => ElapsedFromFirstFrame

\* A run restarted after the last frame callback of the previous run takes
\* its time base from the previous run: its first frame plays the matches of
\* the time since the previous run's last match.
C27_RestartBurst ==
  variant = "raf" /\ ~running /\ runs >= 1 /\ scheduled = {} =>
    MatchesIn(FrameAfter(Started, now + framePeriod))
      = (now + framePeriod - lastTs) \div CADENCE_MS
\* ---------------------------------------------------------------- C28
\* The step is one scheduler tick that played one match.
OneMatchTick == runs' = runs /\ Len(matchLog') = Len(matchLog) + 1

\* The roster positions of the two agents of the match of the step.
SelectedPair == {lastMatch'.idxA + 1, lastMatch'.idxB + 1}

\* The roster after the step has the agents of the roster before it: the same
\* ids, names and kinds in the same order.
SameRoster ==
  /\ Len(agents') = Len(agents)
  /\ \A k \in DOMAIN agents :
       /\ agents'[k].id = agents[k].id
       /\ agents'[k].name = agents[k].name
       /\ agents'[k].isClassic = agents[k].isClassic

\* The roster has AGENT_COUNT agents, the classic ones first.
TenAgents ==
  /\ Len(agents) = AGENT_COUNT
  /\ {k \in DOMAIN agents : agents[k].isClassic} = 1..6
  /\ Cardinality({agents[k].name : k \in DOMAIN agents}) = AGENT_COUNT

\* Every agent outside the selected pair has the score it had.
OtherScoresKept ==
  \A k \in DOMAIN agents \ SelectedPair : agents'[k].score = agents[k].score

\* Every agent outside the selected pair is as it was, histories included.
OthersUntouched ==
  \A k \in DOMAIN agents \ SelectedPair : agents'[k] = agents[k]

\* C28: a scheduler tick changes the score and histories of the two selected
\* agents only: every other agent's score and histories are unchanged, and
\* the roster keeps the same 10 agents (6 classic, 4 adaptive) with the same
\* ids, names and order across all ticks and run restarts.
C28_OnlySelectedChange ==
  [][/\ OneMatchTick => OtherScoresKept /\ OthersUntouched
     /\ SameRoster
     /\ TenAgents']_vars

\* The scores of the other agents and the roster are kept in every build.
C28_ScoresAndRosterKept ==
  [][/\ OneMatchTick => OtherScoresKept
     /\ SameRoster
     /\ TenAgents']_vars

\* With one invocation of the updater per tick the claim holds as stated.
C28_SingleInvocation ==
  [][~strictDev => /\ OneMatchTick => OtherScoresKept /\ OthersUntouched
                   /\ SameRoster
                   /\ TenAgents']_vars
\* ---------------------------------------------------------------- C29
\* The highest and the lowest score of one side in a match, and the lowest
\* and the highest sum of the two sides' scores (per round 0..PD_T a side,
\* 2 * PD_P..2 * PD_R the two sides).
MaxSideScore == ITERATED_LENGTH * PD_T
MinPairScore == ITERATED_LENGTH * 2 * PD_P
MaxPairScore == ITERATED_LENGTH * 2 * PD_R

RECURSIVE SumScores(_)
\* The sum of the cumulative scores of the agents of roster.
SumScores(roster) ==
  IF roster = <<>> THEN 0 ELSE roster[1].score + SumScores(Tail(roster))

\* Every match of the run: each side's score and the sum of the two.
MatchScoresInRange ==
  \A n \in DOMAIN matchLog :
    /\ matchLog[n][3] \in 0..MaxSideScore
    /\ matchLog[n][4] \in 0..MaxSideScore
    /\ matchLog[n][3] + matchLog[n][4] \in MinPairScore..MaxPairScore

\* After the n matches of the run so far the cumulative scores add up to a
\* value in [MinPairScore * n, MaxPairScore * n] and none is negative.
CumulativeInRange ==
  /\ \A k \in DOMAIN agents : agents[k].score >= 0
  /\ SumScores(agents) >= MinPairScore * Len(matchLog)
  /\ SumScores(agents) <= MaxPairScore * Len(matchLog)

\* Within a run no cumulative score decreases.
NeverDecreases ==
  runs' = runs => \A k \in DOMAIN agents : agents'[k].score >= agents[k].score

\* C29: for every match each side's match score lies in [0, 100] and
\* scoreA + scoreB lies in [40, 120]; hence within a run every agent's
\* cumulative score is non-negative and never decreases, and after n matches
\* the sum of all cumulative scores lies in [40n, 120n].
C29_ScoreBounds ==
  /\ MaxSideScore = 100 /\ MinPairScore = 40 /\ MaxPairScore = 120
  /\ [](MatchScoresInRange /\ CumulativeInRange)
  /\ [][NeverDecreases]_vars

\* A restarted run has played several matches and an agent's cumulative score
\* exceeds what one match can give.
C29_Witness ==
  /\ runs = 2
  /\ Len(matchLog) >= 3
  /\ \E k \in DOMAIN agents : agents[k].score > MaxSideScore
\* ---------------------------------------------------------------- C30
\* While a run is in progress no step starts a run: the scores, the tick
\* counter and the log are not reset and no timer or frame loop is added.
NoStartWhileRunning ==
  running =>
    /\ runs' = runs
    /\ scheduled' \subseteq scheduled
    /\ Len(matchLog') >= Len(matchLog)
    /\ tick' >= tick
    /\ \A k \in DOMAIN agents : agents'[k].score >= agents[k].score

\* At most one interval or frame loop is scheduled.
OneLoop == Cardinality(scheduled) <= 1

\* C30: at most one scheduler loop drives the simulation at any time:
\* invoking startSimulation while a run is in progress is a no-op that
\* neither resets scores, tick and log nor starts a second timer or
\* animation-frame loop.
C30_OneSchedulerLoop == []OneLoop /\ [][NoStartWhileRunning]_vars

\* The guard of startSimulation alone: no start while a run is in progress.
C30_GuardedStart == [][NoStartWhileRunning]_vars

\* One loop at any time in the interval variants and in the first run of the
\* animation-frame variant.
C30_OneLoopOtherwise == variant # "raf" \/ runs <= 1 => OneLoop

\* When two frame loops are pending the loop of the previous run plays a
\* match of the new run with its own tick counter.
C30_StaleLoopPlays ==
  [][~OneLoop /\ Len(matchLog') > Len(matchLog) =>
       /\ currentTick'[runs - 1] = currentTick[runs - 1] + 1
       /\ currentTick'[runs] = currentTick[runs]
       /\ ~running']_vars

\* Two frame loops are pending and the next frame plays a match.
C30_TwoLoops == ~OneLoop /\ running /\ matchLog = <<>>
====
